---- MODULE Spec2Model ----
(***************************************************************************)
(* Inbound note routing and clarification engine of leaknote: the Matrix   *)
(* message handler (bot/main.py), the router (bot/router.py), the          *)
(* reference parser and classifier (bot/classifier.py), the fix handler    *)
(* (bot/fix_handler.py) and the storage operations they use (bot/db.py).   *)
(*                                                                         *)
(* Text is a sequence of one-character strings, so that lower(), strip(),  *)
(* startswith(), slicing and split() are computed as Python computes them. *)
(* The character U+2192 (rightwards arrow) is written "=>".                *)
(* Confidence values and thresholds are in hundredths (0.6 is 60).         *)
(***************************************************************************)
EXTENDS Integers, Sequences, FiniteSets, TLC

\* ------------------------------------------------------------------------
\* Python's None, for each type of value that may be None
\* ------------------------------------------------------------------------
NoCategory == "None"
NoRecord == 0
NoConfidence == -1
NoText == <<"<None>">>
NoEvent == 0

\* ------------------------------------------------------------------------
\* str operations
\* ------------------------------------------------------------------------
Whitespace == {" ", "\n", "\t"}

UpperCase == <<"A","B","C","D","E","F","G","H","I","J","K","L","M","N","O","P","Q","R","S","T","U","V","W","X","Y","Z">>

LowerCase == <<"a","b","c","d","e","f","g","h","i","j","k","l","m","n","o","p","q","r","s","t","u","v","w","x","y","z">>

Digits == {"0","1","2","3","4","5","6","7","8","9"}

Min(S) == CHOOSE x \in S : \A y \in S : x <= y

Max(S) == CHOOSE x \in S : \A y \in S : x >= y

LowerOf == [c \in {UpperCase[i] : i \in 1..26} |-> LowerCase[CHOOSE i \in 1..26 : UpperCase[i] = c]]

LowerChar(c) == IF c \in DOMAIN LowerOf THEN LowerOf[c] ELSE c

\* str.lower()
Lower(s) == [i \in 1..Len(s) |-> LowerChar(s[i])]

UpperOf == [c \in {LowerCase[i] : i \in 1..26} |-> UpperCase[CHOOSE i \in 1..26 : LowerCase[i] = c]]

UpperChar(c) == IF c \in DOMAIN UpperOf THEN UpperOf[c] ELSE c

\* str.upper()
Upper(s) == [i \in 1..Len(s) |-> UpperChar(s[i])]

\* str.capitalize(), for a text in lower case
Capitalize(s) == [i \in 1..Len(s) |-> IF i = 1 THEN UpperChar(s[i]) ELSE s[i]]

\* c * n
Rep(c, n) == [i \in 1..n |-> c]

\* s[k:] with a 0-based k >= 0
From(s, k) == SubSeq(s, k + 1, Len(s))

\* s[:n] with n >= 0
Take(s, n) == SubSeq(s, 1, IF n < Len(s) THEN n ELSE Len(s))

\* str.strip()
Strip(s) ==
    LET keep == {i \in 1..Len(s) : s[i] \notin Whitespace}
    IN  IF keep = {} THEN <<>> ELSE SubSeq(s, Min(keep), Max(keep))

\* str.lstrip()
LStrip(s) ==
    LET keep == {i \in 1..Len(s) : s[i] \notin Whitespace}
    IN  IF keep = {} THEN <<>> ELSE SubSeq(s, Min(keep), Len(s))

\* str.startswith(p)
StartsWith(s, p) == Len(s) >= Len(p) /\ SubSeq(s, 1, Len(p)) = p

\* s.find(sub) + 1: the 1-based position of the first occurrence, 0 if none
Find(s, sub) ==
    LET hits == {i \in 1..(Len(s) - Len(sub) + 1) : SubSeq(s, i, i + Len(sub) - 1) = sub}
    IN  IF hits = {} THEN 0 ELSE Min(hits)

\* sub in s
Contains(s, sub) == Find(s, sub) # 0

\* s.split(sep, 1)[0] and [1], for a sep that occurs in s
SplitBefore(s, sep) == SubSeq(s, 1, Find(s, sep) - 1)

SplitAfter(s, sep) == SubSeq(s, Find(s, sep) + Len(sep), Len(s))

\* ------------------------------------------------------------------------
\* String literals of the source
\* ------------------------------------------------------------------------
S_decision_c == <<"d", "e", "c", "i", "s", "i", "o", "n", ":">>
S_howto_c == <<"h", "o", "w", "t", "o", ":">>
S_snippet_c == <<"s", "n", "i", "p", "p", "e", "t", ":">>
S_because == <<" ", "b", "e", "c", "a", "u", "s", "e", " ">>
S_arrow == <<"=>">>
S_dasharrow == <<"-", ">">>
S_spdash == <<" ", "-", " ">>
S_colsp == <<":", " ">>
S_fix_c == <<"f", "i", "x", ":">>
S_skip == <<"s", "k", "i", "p">>
S_person == <<"p", "e", "r", "s", "o", "n">>
S_people == <<"p", "e", "o", "p", "l", "e">>
S_project == <<"p", "r", "o", "j", "e", "c", "t">>
S_projects == <<"p", "r", "o", "j", "e", "c", "t", "s">>
S_idea == <<"i", "d", "e", "a">>
S_ideas == <<"i", "d", "e", "a", "s">>
S_admin == <<"a", "d", "m", "i", "n">>
S_decision == <<"d", "e", "c", "i", "s", "i", "o", "n">>
S_decisions == <<"d", "e", "c", "i", "s", "i", "o", "n", "s">>
S_howto == <<"h", "o", "w", "t", "o">>
S_howtos == <<"h", "o", "w", "t", "o", "s">>
S_snippet == <<"s", "n", "i", "p", "p", "e", "t">>
S_snippets == <<"s", "n", "i", "p", "p", "e", "t", "s">>
S_q == <<"?">>
S_qrecall == <<"?", "r", "e", "c", "a", "l", "l">>
S_qsearch == <<"?", "s", "e", "a", "r", "c", "h">>
S_qpeople == <<"?", "p", "e", "o", "p", "l", "e">>
S_qprojects == <<"?", "p", "r", "o", "j", "e", "c", "t", "s">>
S_qideas == <<"?", "i", "d", "e", "a", "s">>
S_qadmin == <<"?", "a", "d", "m", "i", "n">>
S_active == <<"a", "c", "t", "i", "v", "e">>
S_waiting == <<"w", "a", "i", "t", "i", "n", "g">>
S_blocked == <<"b", "l", "o", "c", "k", "e", "d">>
S_someday == <<"s", "o", "m", "e", "d", "a", "y">>
S_done == <<"d", "o", "n", "e">>
S_due == <<"d", "u", "e">>


\* ------------------------------------------------------------------------
\* dict operations
\* ------------------------------------------------------------------------
EmptyDict == [k \in {} |-> <<>>]

\* d[k] = v
DictSet(d, k, v) == [x \in (DOMAIN d) \cup {k} |-> IF x = k THEN v ELSE d[x]]

\* ------------------------------------------------------------------------
\* Categories (bot/router.py) and thresholds (bot/config.py)
\* ------------------------------------------------------------------------
CATEGORY_TABLE_MAP == {"people", "projects", "ideas", "admin", "decisions", "howtos", "snippets"}

CATEGORY_DISPLAY(category) ==
    CASE category = "people" -> "person"
      [] category = "projects" -> "project"
      [] category = "ideas" -> "idea"
      [] category = "admin" -> "admin"
      [] category = "decisions" -> "decision"
      [] category = "howtos" -> "howto"
      [] category = "snippets" -> "snippet"
      [] OTHER -> category

CONFIDENCE_THRESHOLD == 60

CONFIDENCE_THRESHOLDS ==
    [c \in {"people", "projects", "ideas", "admin"} |-> IF c = "ideas" THEN 50 ELSE 60]

get_threshold_of_first_entry(category) == CONFIDENCE_THRESHOLDS["ideas"]

get_threshold(category) ==
    IF category \in DOMAIN CONFIDENCE_THRESHOLDS
    THEN CONFIDENCE_THRESHOLDS[category]
    ELSE CONFIDENCE_THRESHOLD

\* ------------------------------------------------------------------------
\* Reference parser (bot/classifier.py)
\* ------------------------------------------------------------------------
TITLE_MAX == 100

NoRef == [category |-> NoCategory, extracted |-> EmptyDict]

Separators == <<S_arrow, S_dasharrow, S_spdash, S_colsp>>

content_cut_as_title(content) == Take(content, TITLE_MAX)

\* "content": content, where no separator is found
content_as_it_is(content) == content

\* the title/content split shared by the howto: and snippet: branches
SplitTitleContent(content) ==
    LET found == {i \in 1..Len(Separators) : Contains(content, Separators[i])}
    IN  IF found # {}
        THEN LET sep == Separators[Min(found)]
             IN  [title |-> Strip(SplitBefore(content, sep)),
                  content |-> Strip(SplitAfter(content, sep))]
        ELSE [title |-> Take(content, TITLE_MAX), content |-> content_as_it_is(content)]

because_index_as_written(content) == Find(content, S_because) - 1

\* content.lower().index(" because ")
because_index(content) == Find(Lower(content), S_because) - 1

parse_reference(text) ==
    LET text_lower == Strip(Lower(text))
    IN  IF StartsWith(text_lower, S_decision_c)
        THEN LET content == Strip(From(text, 9))
                 idx == because_index(content)
             IN  IF Contains(Lower(content), S_because)
                 THEN LET decision_part == Strip(Take(content, idx))
                          rationale_part == Strip(From(content, idx + 9))
                      IN  [category |-> "decisions",
                           extracted |-> [title |-> Take(decision_part, TITLE_MAX),
                                          decision |-> decision_part,
                                          rationale |-> rationale_part]]
                 ELSE [category |-> "decisions",
                       extracted |-> [title |-> Take(content, TITLE_MAX),
                                      decision |-> content,
                                      rationale |-> NoText]]
        ELSE IF StartsWith(text_lower, S_howto_c)
        THEN [category |-> "howtos", extracted |-> SplitTitleContent(Strip(From(text, 6)))]
        ELSE IF StartsWith(text_lower, S_snippet_c)
        THEN [category |-> "snippets", extracted |-> SplitTitleContent(Strip(From(text, 8)))]
        ELSE NoRef

\* ------------------------------------------------------------------------
\* Fix command parser (bot/fix_handler.py)
\* ------------------------------------------------------------------------
VALID_CATEGORIES(word) ==
    CASE word = S_person \/ word = S_people -> "people"
      [] word = S_project \/ word = S_projects -> "projects"
      [] word = S_idea \/ word = S_ideas -> "ideas"
      [] word = S_admin -> "admin"
      [] word = S_decision \/ word = S_decisions -> "decisions"
      [] word = S_howto \/ word = S_howtos -> "howtos"
      [] word = S_snippet \/ word = S_snippets -> "snippets"
      [] OTHER -> NoCategory

\* \w
WordChars == {LowerCase[i] : i \in 1..26} \cup {UpperCase[i] : i \in 1..26} \cup Digits \cup {"_"}

IsWordChar(c) == c \in WordChars

\* the longest prefix of s made of characters satisfying \w
WordPrefix(s) ==
    LET stops == {i \in 1..Len(s) : ~IsWordChar(s[i])}
    IN  IF stops = {} THEN s ELSE SubSeq(s, 1, Min(stops) - 1)

fix_text_as_written(text) == Strip(text)

\* text.strip().lower()
fix_text(text) == Lower(Strip(text))

parse_fix_command(text) ==
    LET t == fix_text(text)
        word == WordPrefix(LStrip(From(t, 4)))
    IN  IF StartsWith(t, S_fix_c) /\ word # <<>>
        THEN VALID_CATEGORIES(word)
        ELSE NoCategory

\* ------------------------------------------------------------------------
\* Query command parser (bot/commands.py)
\* ------------------------------------------------------------------------
NoCommand == [command |-> "None", arg |-> NoText]

\* ^\?<name>\s+(.+)$ with re.IGNORECASE: the argument, or NoText when the
\* pattern does not match
ArgPattern(text, name) ==
    LET rest == From(text, Len(name))
        arg == LStrip(rest)
    IN  IF /\ StartsWith(Lower(text), name)
           /\ Len(arg) < Len(rest)
           /\ arg # <<>>
           /\ ~Contains(arg, <<"\n">>)
        THEN arg
        ELSE NoText

\* ^\?<name>(?:\s+(w1|w2|...))?$ with re.IGNORECASE
OptionPattern(text, name, words) ==
    LET rest == From(text, Len(name))
        arg == LStrip(rest)
    IN  /\ StartsWith(Lower(text), name)
        /\ \/ rest = <<>>
           \/ Len(arg) < Len(rest) /\ Lower(arg) \in words

parse_command(body) ==
    LET text == Strip(body)
        optarg == LStrip(From(text, Len(S_qprojects)))
        duearg == LStrip(From(text, Len(S_qadmin)))
    IN  IF ~StartsWith(text, S_q) THEN NoCommand
        ELSE IF ArgPattern(text, S_qrecall) # NoText
        THEN [command |-> "recall", arg |-> Lower(ArgPattern(text, S_qrecall))]
        ELSE IF ArgPattern(text, S_qsearch) # NoText
        THEN [command |-> "search", arg |-> Lower(ArgPattern(text, S_qsearch))]
        ELSE IF ArgPattern(text, S_qpeople) # NoText
        THEN [command |-> "people", arg |-> Lower(ArgPattern(text, S_qpeople))]
        ELSE IF OptionPattern(text, S_qprojects, {S_active, S_waiting, S_blocked, S_someday, S_done})
        THEN [command |-> "projects", arg |-> IF optarg = <<>> THEN NoText ELSE Lower(optarg)]
        ELSE IF Lower(text) = S_qideas
        THEN [command |-> "ideas", arg |-> NoText]
        ELSE IF OptionPattern(text, S_qadmin, {S_due})
        THEN [command |-> "admin", arg |-> IF duearg = <<>> THEN NoText ELSE Lower(duearg)]
        ELSE NoCommand

\* ------------------------------------------------------------------------
\* Reply text extraction (bot/main.py)
\* ------------------------------------------------------------------------
\* positions at which a line of s starts
LineStarts(s) == {1} \cup {i + 1 : i \in {j \in 1..Len(s) : s[j] = "\n"}}

\* the line of s that starts at position p
LineAt(s, p) ==
    LET ends == {i \in p..Len(s) : s[i] = "\n"}
    IN  SubSeq(s, p, IF ends = {} THEN Len(s) ELSE Min(ends) - 1)

extract_reply_text(body) ==
    LET nonquote == {p \in LineStarts(body) : ~StartsWith(Strip(LineAt(body, p)), <<">">>)}
        new_text == IF nonquote = {} THEN <<>>
                    ELSE Strip(SubSeq(body, Min(nonquote), Len(body)))
    IN  IF new_text # <<>> THEN new_text ELSE body

\* ------------------------------------------------------------------------
\* State
\* ------------------------------------------------------------------------
VARIABLES
    inbox_log,      \* table inbox_log: a sequence of rows, a row's id is its index
    records,        \* the rows of the 7 category tables: [id, table, data]
    record_seq,     \* number of category rows inserted so far (ids are never reused)
    pending,        \* table pending_clarifications
    pending_seq,    \* number of pending_clarifications rows inserted so far
    events,         \* the room's timeline: events[e] is the event with id e
    now,            \* the clock, in days
    last,           \* what the last handler did (observation only)
    classify,       \* the running or last call of classify_thought
    memory_tasks,   \* the tasks made with asyncio.create_task
    parsed,         \* the last call of a parser: its argument and its value
    tasks           \* the calls of handle_fix and handle_reply made step by step

vars == <<inbox_log, records, record_seq, pending, pending_seq, events, now, last, classify,
          memory_tasks, parsed, tasks>>

\* ------------------------------------------------------------------------
\* Bounds and inputs
\* ------------------------------------------------------------------------
MaxMessages == 3

MaxTime == 10

TickDays == {8}

\* the steps of the clock where the horizon of the sweep is looked at
SweepTickDays == {1, 7}

MaxRecords == 2

MaxFixNotes == 1

MaxDeliveries == 3

MaxTasks == 2

B_note == <<"h", "i">>

B_idea == <<"I", "d", "e", "a", ":", " ", "x">>

B_decision == <<"D", "e", "c", "i", "s", "i", "o", "n", ":", " ", "p", " ", "b", "e", "c", "a", "u", "s", "e", " ", "q">>

B_command == <<"?", "i", "d", "e", "a", "s">>

B_command_arg == <<"?", "R", "e", "c", "a", "l", "l", " ", "D", "B">>

B_quoted_command == <<">", " ", "q", "\n", "?", "i", "d", "e", "a", "s">>

B_skip == <<"S", "k", "i", "p">>

B_token == <<">", " ", "q", "\n", "I", "d", "e", "a">>

B_token_colon == <<"h", "o", "w", "t", "o", ":", " ", "z">>

B_fix_decision == <<"f", "i", "x", ":", " ", "d", "e", "c", "i", "s", "i", "o", "n">>

B_fix_idea == <<"F", "i", "x", ":", "i", "d", "e", "a", "s">>

B_free == <<"y", "o">>

\* bodies of messages that are no reply
NewBodies == {B_note, B_decision}

\* bodies of replies
ReplyBodies == {B_note, B_skip, B_token, B_token_colon, B_fix_decision, B_fix_idea}

\* bodies given to the router alone
RouteBodies == {B_note, B_idea, B_decision}

\* bodies of the replies to a clarification request that are routed
ClarifyBodies == {B_free, B_token, B_token_colon}

\* the categories handle_fix is called with
FixTargets == {"people", "projects", "ideas", "admin", "decisions", "howtos", "snippets"}

\* the categories of the calls of handle_fix that run step by step: the
\* two of the reference categories and a dynamic one
RaceTargets == {"decisions", "howtos", "people"}

\* bodies of the replies that run step by step: a category label, a label
\* with a colon, free text and "skip"
RaceBodies == {B_token, B_token_colon, B_free, B_skip}

\* bodies of query commands
CommandBodies == {B_command, B_command_arg}

\* bodies of the replies drawn where commands are: the commands, a command
\* below the quoted line that a client puts in the body of a reply, and
\* free text
CommandReplyBodies == CommandBodies \cup {B_quoted_command, B_free}

\* What classify_thought can give its caller: an exception, or the parsed
\* JSON value: an object (json holds its members, null as the None of the
\* member's type, a missing member left out) or a value that is no object.
Raises == [raised |-> TRUE, isdict |-> FALSE, json |-> EmptyDict]

Object(d) == [raised |-> FALSE, isdict |-> TRUE, json |-> d]

NotAnObject == [raised |-> FALSE, isdict |-> FALSE, json |-> EmptyDict]

X_idea == [title |-> <<"T">>]

X_project == [name |-> <<"N">>, status |-> <<"active">>]

ClassifierOutcomes ==
    { Raises,
      NotAnObject,
      Object([category |-> "ideas", confidence |-> 30, extracted |-> X_idea, tags |-> <<>>]),
      Object([category |-> "ideas", confidence |-> 50, extracted |-> X_idea, tags |-> <<"t">>]),
      Object([category |-> "projects", confidence |-> 50, extracted |-> X_project, tags |-> <<>>]),
      Object([category |-> "projects", confidence |-> 60, extracted |-> X_project, tags |-> <<>>]),
      Object([category |-> "unknown_category", confidence |-> 30, extracted |-> EmptyDict, tags |-> <<>>]),
      Object([category |-> "unknown_category", confidence |-> 90, extracted |-> EmptyDict, tags |-> <<>>]),
      Object([category |-> NoCategory, confidence |-> 30, extracted |-> EmptyDict, tags |-> <<>>]),
      Object([category |-> NoCategory, confidence |-> 90, extracted |-> EmptyDict, tags |-> <<>>]),
      Object([category |-> "ideas", confidence |-> NoConfidence, extracted |-> X_idea, tags |-> <<>>]),
      Object([category |-> "ideas", extracted |-> X_idea]) }

\* the outcomes drawn where the whole message handler runs
HandlerOutcomes ==
    { Raises,
      Object([category |-> "ideas", confidence |-> 30, extracted |-> X_idea, tags |-> <<>>]),
      Object([category |-> "ideas", confidence |-> 50, extracted |-> X_idea, tags |-> <<"t">>]) }

\* the outcomes drawn for a reply to a clarification request: those above
\* and a JSON value that is no object, on which route_message raises
ClarifyOutcomes == HandlerOutcomes \cup {NotAnObject}

\* the outcomes drawn where handle_fix is called alone
FixOutcomes ==
    { Raises,
      NotAnObject,
      Object([category |-> "ideas", confidence |-> 30, extracted |-> X_idea, tags |-> <<>>]),
      Object([category |-> "projects", confidence |-> 60, extracted |-> X_project, tags |-> <<"t">>]) }

\* the outcomes drawn where the sweep runs: a note that needs review and a
\* note that is filed
SweepOutcomes ==
    { Raises,
      Object([category |-> "ideas", confidence |-> 50, extracted |-> X_idea, tags |-> <<>>]) }

\* the outcomes drawn where the threshold is read: one for each of the 7
\* categories, for a category that is none of them and for a null category,
\* with a confidence between the two thresholds of the configuration
ThresholdCategories == CATEGORY_TABLE_MAP \cup {"unknown_category", NoCategory}

ThresholdOutcomes ==
    {Object([category |-> c, confidence |-> 55, extracted |-> X_idea, tags |-> <<>>]) :
        c \in ThresholdCategories}

\* dict.get(k, default)
Get(d, k, default) == IF k \in DOMAIN d THEN d[k] ELSE default

\* truth value of an Optional[str] holding text
TruthyText(t) == t # NoText /\ t # <<>>

\* ------------------------------------------------------------------------
\* Storage (bot/db.py)
\* ------------------------------------------------------------------------
\* the ids of the inbox_log rows get_inbox_log_by_event may return
inbox_log_by_event(log, message_id) ==
    {i \in 1..Len(log) : log[i].message_id = message_id}

get_inbox_log_by_event(message_id) == inbox_log_by_event(inbox_log, message_id)

\* the rows get_pending_by_reply_to may return (the join with inbox_log is
\* taken where the caller reads raw_text)
get_pending_by_reply_to(message_id) ==
    {p \in pending : p.message_id = message_id /\ p.inbox_log_id \in 1..Len(inbox_log)}

\* the row of table with that id, as a set (empty when there is none)
get_record(table, record_id) ==
    {r \in records : r.table = table /\ r.id = record_id}

delete_pending_noop(row) == pending

\* the table after delete_pending_clarification(row.id)
delete_pending_clarification(row) == pending \ {row}

HORIZON_DAYS == 7

cleanup_old_pending_in_weeks(days) == {p \in pending : p.created_at < now - 7 * days}

cleanup_old_pending_from_horizon(days) == {p \in pending : p.created_at <= now - days}

\* the pending rows cleanup_old_pending(days) deletes
cleanup_old_pending(days) == {p \in pending : p.created_at < now - days}

InboxLogRow(raw_text, destination, record_id, confidence, status, message_id) ==
    [raw_text |-> raw_text, destination |-> destination, record_id |-> record_id,
     confidence |-> confidence, status |-> status, message_id |-> message_id]

\* ------------------------------------------------------------------------
\* Router (bot/router.py).  route_message is given the classifier's outcome
\* for the text and the id the next inserted category row gets; its value
\* is what the call does: the rows it inserts and its return value.
\* ------------------------------------------------------------------------
RouteRaised(text, message_id, classified) ==
    [called |-> TRUE, text |-> text, message_id |-> message_id, classified |-> classified,
     raised |-> TRUE, category |-> NoCategory, record_id |-> NoRecord,
     confidence |-> NoConfidence, status |-> "raised",
     inserted |-> {}, logged |-> <<>>, enhance |-> FALSE]

RouteFiled(text, message_id, classified, category, extracted, confidence, record_id) ==
    [called |-> TRUE, text |-> text, message_id |-> message_id, classified |-> classified,
     raised |-> FALSE, category |-> category, record_id |-> record_id,
     confidence |-> confidence, status |-> "filed",
     inserted |-> {[id |-> record_id, table |-> category, data |-> extracted]},
     logged |-> <<InboxLogRow(text, category, record_id, confidence, "filed", message_id)>>,
     enhance |-> TRUE]

RouteNeedsReview(text, message_id, category, confidence) ==
    [called |-> TRUE, text |-> text, message_id |-> message_id, classified |-> TRUE,
     raised |-> FALSE, category |-> category, record_id |-> NoRecord,
     confidence |-> confidence, status |-> "needs_review",
     inserted |-> {},
     logged |-> <<InboxLogRow(text, category, NoRecord, confidence, "needs_review", message_id)>>,
     enhance |-> FALSE]

below_or_at_threshold(confidence, threshold) == confidence <= threshold

\* confidence < threshold
below_threshold(confidence, threshold) == confidence < threshold

classification_failed_as_zero(text, message_id) ==
    RouteNeedsReview(text, message_id, NoCategory, 0)

\* the except branch around classify_thought
classification_failed(text, message_id) ==
    RouteNeedsReview(text, message_id, NoCategory, NoConfidence)

unknown_category_keeps_destination(text, message_id, category, confidence) ==
    RouteNeedsReview(text, message_id, category, confidence)

\* the branch for a category that has no table
unknown_category(text, message_id, category, confidence) ==
    RouteNeedsReview(text, message_id, NoCategory, confidence)

create_task_when_returned(r) ==
    IF ~r.raised
    THEN {[note_id |-> r.record_id, category |-> r.category, input_note |-> r.text,
           status |-> "scheduled"]}
    ELSE {}

\* asyncio.create_task(_enhance_with_memory(...)) on the two paths that file
create_task(r) ==
    IF r.enhance
    THEN {[note_id |-> r.record_id, category |-> r.category, input_note |-> r.text,
           status |-> "scheduled"]}
    ELSE {}

threshold_default(category) == CONFIDENCE_THRESHOLD

\* "Get threshold for this category"
threshold_of(category) ==
    IF category # NoCategory THEN get_threshold(category) ELSE CONFIDENCE_THRESHOLD

\* the value of the call with the local variable threshold added to it
\* (NoConfidence on the paths that do not reach its assignment)
WithThreshold(r, threshold) ==
    [k \in DOMAIN r \cup {"threshold"} |-> IF k = "threshold" THEN threshold ELSE r[k]]

route_message(text, message_id, cls, record_id) ==
    LET ref_result == parse_reference(text)
        category == Get(cls.json, "category", NoCategory)
        confidence == Get(cls.json, "confidence", 0)
        tags == Get(cls.json, "tags", <<>>)
        extracted == IF tags # <<>>
                     THEN DictSet(Get(cls.json, "extracted", EmptyDict), "tags", tags)
                     ELSE Get(cls.json, "extracted", EmptyDict)
        threshold == threshold_of(category)
    IN  IF ref_result # NoRef
        THEN WithThreshold(RouteFiled(text, message_id, FALSE, ref_result.category,
                                      ref_result.extracted, 100, record_id), NoConfidence)
        ELSE IF cls.raised
        THEN WithThreshold(classification_failed(text, message_id), NoConfidence)
        ELSE IF ~cls.isdict                            \* no attribute 'get'
        THEN WithThreshold(RouteRaised(text, message_id, TRUE), NoConfidence)
        ELSE IF confidence = NoConfidence              \* None < float
        THEN WithThreshold(RouteRaised(text, message_id, TRUE), threshold)
        ELSE IF below_threshold(confidence, threshold)
        THEN WithThreshold(RouteNeedsReview(text, message_id, category, confidence), threshold)
        ELSE IF category \notin CATEGORY_TABLE_MAP
        THEN WithThreshold(unknown_category(text, message_id, category, confidence), threshold)
        ELSE WithThreshold(RouteFiled(text, message_id, TRUE, category, extracted, confidence,
                                      record_id), threshold)

\* ------------------------------------------------------------------------
\* Fix handler (bot/fix_handler.py).  handle_fix is given the inbox_log row
\* the lookup returned (0 when none), the classifier's outcome for the raw
\* text and the id the next inserted category row gets.
\* ------------------------------------------------------------------------
REFERENCE_CATEGORIES == {"decisions", "howtos", "snippets"}

NAME_MAX == 50

\* prefix_map of the two branches
prefix_map(new_category) ==
    CASE new_category = "decisions" -> S_decision_c
      [] new_category = "howtos" -> S_howto_c
      [] new_category = "snippets" -> S_snippet_c
      [] new_category = "people" -> S_person \o <<":">>
      [] new_category = "projects" -> S_project \o <<":">>
      [] new_category = "ideas" -> S_idea \o <<":">>
      [] new_category = "admin" -> S_admin \o <<":">>
      [] OTHER -> <<>>

already_filed_with_record(log_entry, new_category) ==
    log_entry.destination = new_category /\ log_entry.record_id # NoRecord

\* "If same category, nothing to do"
already_filed(log_entry, new_category) == log_entry.destination = new_category

fix_status_kept(log_entry) == log_entry.status

\* the status update_inbox_log is given after the new record was inserted
fix_status(log_entry) == "fixed"

reclassifies_always(new_category, ref_result) == ref_result # NoRef

\* handle_fix calls classify_thought: in the branch of the dynamic
\* categories, after the prefixed text was parsed
reclassifies(new_category, ref_result) ==
    new_category \notin REFERENCE_CATEGORIES /\ ref_result # NoRef

FixResult(success, msg, old_category, extracted_name, deleted, inserted, update, classified, log_id) ==
    [called |-> TRUE, success |-> success, msg |-> msg, old_category |-> old_category,
     extracted_name |-> extracted_name, deleted |-> deleted, inserted |-> inserted,
     update |-> update, classified |-> classified, log_id |-> log_id]

handle_fix(log_id, new_category, cls, record_id) ==
    IF log_id = 0
    THEN FixResult(FALSE, <<"Couldn't find the original message to fix">>, NoCategory, NoText,
                   {}, {}, <<>>, FALSE, 0)
    ELSE
    LET log_entry == inbox_log[log_id]
        old_category == log_entry.destination
        old_record_id == log_entry.record_id
        raw_text == log_entry.raw_text
        deleted == IF old_record_id # NoRecord /\ old_category # NoCategory
                   THEN get_record(old_category, old_record_id)
                   ELSE {}
        prefixed_text == prefix_map(new_category) \o <<" ">> \o raw_text
        ref_result == parse_reference(prefixed_text)
        is_reference == new_category \in REFERENCE_CATEGORIES
        tags == IF reclassifies(new_category, ref_result) /\ ~cls.raised /\ cls.isdict
                THEN Get(cls.json, "tags", <<>>)
                ELSE <<>>
        extracted == IF tags # <<>>
                     THEN DictSet(ref_result.extracted, "tags", tags)
                     ELSE ref_result.extracted
        title == Get(extracted, "title", NoText)
        name == Get(extracted, "name", NoText)
        extracted_name ==
            IF is_reference
            THEN (IF TruthyText(title) THEN title
                  ELSE IF TruthyText(name) THEN name ELSE Take(raw_text, NAME_MAX))
            ELSE (IF TruthyText(name) THEN name
                  ELSE IF TruthyText(title) THEN title ELSE Take(raw_text, NAME_MAX))
        old_display == IF old_category # NoCategory THEN CATEGORY_DISPLAY(old_category)
                       ELSE "unknown"
    IN  IF already_filed(log_entry, new_category)
        THEN FixResult(FALSE, <<"Already filed as ", CATEGORY_DISPLAY(new_category)>>,
                       NoCategory, NoText, {}, {}, <<>>, FALSE, log_id)
        ELSE IF ref_result = NoRef
        THEN FixResult(FALSE,
                       IF is_reference THEN <<"Couldn't parse as reference">>
                       ELSE <<"Couldn't extract data for category '", new_category, "'">>,
                       NoCategory, NoText, deleted, {}, <<>>, FALSE, log_id)
        ELSE FixResult(TRUE, <<"Fixed">>, old_display, extracted_name, deleted,
                       {[id |-> record_id, table |-> new_category, data |-> extracted]},
                       <<[destination |-> new_category, record_id |-> record_id,
                          status |-> fix_status(log_entry)]>>,
                       reclassifies(new_category, ref_result), log_id)

\* ------------------------------------------------------------------------
\* Messages the bot sends (bot/responder.py); a body is a sequence of parts
\* ------------------------------------------------------------------------
\* an event of the user; of its content the handlers read only what they are
\* handed when it arrives
UserEvent == [sender |-> "user", reply_to |-> NoEvent, body |-> <<>>]

BotEvent(reply_to, body) == [sender |-> "bot", reply_to |-> reply_to, body |-> body]

send_confirmation(reply_to, category, confidence, extracted_name) ==
    BotEvent(reply_to, <<"Filed as ", category>>)

send_clarification_request(reply_to, suggested_category, confidence) ==
    BotEvent(reply_to,
             IF suggested_category # NoCategory /\ confidence # NoConfidence /\ confidence # 0
             THEN <<"Not sure about this one. Best guess: ", suggested_category>>
             ELSE <<"I couldn't classify this.">>)

send_fix_confirmation(reply_to, old_category, new_category, extracted_name) ==
    BotEvent(reply_to, <<"Fixed: moved from ", old_category, new_category>>)

send_error(reply_to, message) == BotEvent(reply_to, <<"(!) ">> \o message)

send_message(reply_to, body) == BotEvent(reply_to, body)

\* ------------------------------------------------------------------------
\* Message handler (bot/main.py)
\* ------------------------------------------------------------------------
UserMessages == {e \in 1..Len(events) : events[e].sender = "user"}

ReplyTargets == 1..Len(events)

\* the id of the event being handled
ThisEvent == Len(events) + 1

\* What a handler did, for observation: the calls of route_message and
\* handle_fix with their arguments and results (rows by their ids), the
\* pending rows created and deleted, the messages sent.
NoRouteCall ==
    [called |-> FALSE, text |-> <<>>, message_id |-> NoEvent, classified |-> FALSE,
     outcome |-> Raises, raised |-> FALSE, category |-> NoCategory, record_id |-> NoRecord,
     confidence |-> NoConfidence, status |-> "none", inserted |-> {}, log_id |-> 0,
     enhance |-> FALSE, threshold |-> NoConfidence]

RouteCall(r, cls) ==
    [called |-> TRUE, text |-> r.text, message_id |-> r.message_id,
     classified |-> r.classified, outcome |-> IF r.classified THEN cls ELSE Raises,
     raised |-> r.raised, category |-> r.category, record_id |-> r.record_id,
     confidence |-> r.confidence, status |-> r.status,
     inserted |-> {x.id : x \in r.inserted},
     log_id |-> IF r.logged = <<>> THEN 0 ELSE Len(inbox_log) + 1,
     enhance |-> r.enhance, threshold |-> r.threshold]

NoFixCall ==
    [called |-> FALSE, log_id |-> 0, new_category |-> NoCategory,
     old_destination |-> NoCategory, old_record_id |-> NoRecord,
     success |-> FALSE, msg |-> <<>>, old_category |-> NoCategory,
     extracted_name |-> NoText, deleted |-> {}, inserted |-> {}, classified |-> FALSE]

FixCall(f, log_id, new_category) ==
    [called |-> TRUE, log_id |-> log_id, new_category |-> new_category,
     old_destination |-> IF log_id = 0 THEN NoCategory ELSE inbox_log[log_id].destination,
     old_record_id |-> IF log_id = 0 THEN NoRecord ELSE inbox_log[log_id].record_id,
     success |-> f.success, msg |-> f.msg, old_category |-> f.old_category,
     extracted_name |-> f.extracted_name,
     deleted |-> {x.id : x \in f.deleted}, inserted |-> {x.id : x \in f.inserted},
     classified |-> f.classified]

Observed(handler, text, clarified, route, fix, created, deleted, sent) ==
    [handler |-> handler, event |-> ThisEvent, text |-> text, clarified |-> clarified,
     route |-> route, fix |-> fix,
     pending_created |-> created, pending_deleted |-> deleted, sent |-> sent]

\* the valid_categories loop of handle_reply: the matched token, <<>> if none
VALID_TOKENS == <<S_person, S_project, S_idea, S_admin, S_decision, S_howto, S_snippet>>

matched_category(text) ==
    LET text_lower == Strip(Lower(text))
        hits == {i \in 1..Len(VALID_TOKENS) :
                    \/ StartsWith(text_lower, VALID_TOKENS[i] \o <<":">>)
                    \/ text_lower = VALID_TOKENS[i]}
    IN  IF hits = {} THEN <<>> ELSE VALID_TOKENS[Min(hits)]

\* What on_message and handle_reply compute from the body of the event alone:
\*   text         event.body.strip()
\*   command      parse_command(text)
\*   reply_text   extract_reply_text(event)
\*   fix_category parse_fix_command(reply_text)
\*   skip         reply_text.lower() == "skip"
\*   token        the category token the reply matches
Bodies ==
    NewBodies \cup ReplyBodies \cup RouteBodies \cup CommandBodies \cup ClarifyBodies
        \cup CommandReplyBodies \cup RaceBodies

OfBody ==
    [b \in Bodies |->
        [text |-> Strip(b),
         command |-> parse_command(Strip(b)),
         reply_text |-> extract_reply_text(b),
         fix_category |-> parse_fix_command(extract_reply_text(b)),
         skip |-> Lower(extract_reply_text(b)) = S_skip,
         token |-> matched_category(extract_reply_text(b))]]

\* on_message up to the point where it hands over: the sender is a user, the
\* room is the inbox room and the stripped body is not empty
Accepted(body) ==
    /\ Cardinality(UserMessages) < MaxMessages
    /\ OfBody[body].text # <<>>

get_original_event_id(reply_to_id, fetch_ok) ==
    IF get_inbox_log_by_event(reply_to_id) # {}
    THEN reply_to_id
    ELSE IF /\ fetch_ok
            /\ events[reply_to_id].sender = "bot"
            /\ events[reply_to_id].reply_to # NoEvent
            /\ get_inbox_log_by_event(events[reply_to_id].reply_to) # {}
    THEN events[reply_to_id].reply_to
    ELSE NoEvent

\* record.get("name") or record.get("title") or text[:50] if record else text[:50]
ExtractedName(rows, text) ==
    IF rows = {} THEN Take(text, NAME_MAX)
    ELSE LET record == (CHOOSE r \in rows : TRUE).data
         IN  IF TruthyText(Get(record, "name", NoText)) THEN record.name
             ELSE IF TruthyText(Get(record, "title", NoText)) THEN record.title
             ELSE Take(text, NAME_MAX)

new_text_always_original(token, text, original_text) ==
    IF token # <<>>
    THEN token \o <<":", " ">> \o original_text
    ELSE original_text

new_text_from_reply(token, text, original_text) ==
    IF token # <<>>
    THEN token \o <<":", " ">> \o text
    ELSE text

\* the text handle_reply hands to route_message
new_text(token, text, original_text) ==
    IF token # <<>>
    THEN token \o <<":", " ">> \o original_text
    ELSE text

handled_as_command_unless_reply(command, reply_to) ==
    command # NoCommand /\ reply_to = NoEvent

\* "Check for query commands first": before get_reply_to_event_id is called
handled_as_command(command, reply_to) == command # NoCommand

\* a query command, sent as a reply (to reply_to) or not (NoEvent): answered
\* by the command handler
Command(body, reply_to, command_ok) ==
    /\ Accepted(body)
    /\ handled_as_command(OfBody[body].command, reply_to)
    /\ LET sent == IF command_ok
                   THEN send_message(ThisEvent, <<"response">>)
                   ELSE send_message(ThisEvent, <<"Error: ", "str(e)">>)
       IN  /\ events' = events \o <<[UserEvent EXCEPT !.reply_to = reply_to], sent>>
           /\ last' = Observed("command", OfBody[body].text, 0, NoRouteCall, NoFixCall, {}, {},
                               <<sent>>)
    /\ UNCHANGED <<inbox_log, records, record_seq, pending, pending_seq, now, classify, memory_tasks, parsed, tasks>>

\* a message that is no command and no reply: routed
NewMessage(body, cls) ==
    /\ Accepted(body)
    /\ ~handled_as_command(OfBody[body].command, NoEvent)
    /\ \E r \in {route_message(OfBody[body].text, ThisEvent, cls, record_seq + 1)} :
       LET text == OfBody[body].text
           clarification == send_clarification_request(ThisEvent, r.category, r.confidence)
           confirmation ==
               send_confirmation(ThisEvent, CATEGORY_DISPLAY(r.category), r.confidence,
                                 ExtractedName(r.inserted, text))
       IN  /\ memory_tasks' = memory_tasks \cup create_task(r)
           /\ inbox_log' = inbox_log \o r.logged
           /\ records' = records \cup r.inserted
           /\ record_seq' = record_seq + Cardinality(r.inserted)
           /\ IF r.raised
              THEN /\ events' = Append(events, UserEvent)
                   /\ last' = Observed("new_message", <<>>, 0, RouteCall(r, cls), NoFixCall, {}, {}, <<>>)
                   /\ UNCHANGED <<pending, pending_seq>>
              ELSE IF r.status = "filed" /\ r.record_id # NoRecord
              THEN /\ events' = events \o <<UserEvent, confirmation>>
                   /\ last' = Observed("new_message", <<>>, 0, RouteCall(r, cls), NoFixCall, {}, {}, <<confirmation>>)
                   /\ UNCHANGED <<pending, pending_seq>>
              ELSE \E log_id \in inbox_log_by_event(inbox_log', ThisEvent) :
                   LET row == [id |-> pending_seq + 1, inbox_log_id |-> log_id,
                               message_id |-> ThisEvent + 1,
                               suggested_category |-> r.category, created_at |-> now]
                   IN  /\ events' = events \o <<UserEvent, clarification>>
                       /\ pending' = pending \cup {row}
                       /\ pending_seq' = pending_seq + 1
                       /\ last' = Observed("new_message", <<>>, 0, RouteCall(r, cls), NoFixCall, {row.id}, {},
                                           <<clarification>>)
    /\ UNCHANGED <<now, classify, parsed, tasks>>

\* on_message called once more for the event original_event_id, a message
\* that was routed as a new message when it came first (the transport gives
\* an event again after a restart or a reconnection: the client then syncs
\* without a token).  Its text is the one logged then; the row that
\* get_inbox_log_by_event returns is any of the rows logged for the event.
Redeliver(original_event_id, cls) ==
    /\ Len(inbox_log) < MaxDeliveries
    /\ original_event_id \in UserMessages
    /\ \E first \in get_inbox_log_by_event(original_event_id) :
       \E r \in {route_message(inbox_log[first].raw_text, original_event_id, cls,
                               record_seq + 1)} :
       LET text == inbox_log[first].raw_text
           clarification ==
               send_clarification_request(original_event_id, r.category, r.confidence)
           confirmation ==
               send_confirmation(original_event_id, CATEGORY_DISPLAY(r.category), r.confidence,
                                 ExtractedName(r.inserted, text))
           observed(created, sent) ==
               [Observed("redelivered", <<>>, 0, RouteCall(r, cls), NoFixCall, created, {}, sent)
                   EXCEPT !.event = original_event_id]
       IN  /\ memory_tasks' = memory_tasks \cup create_task(r)
           /\ inbox_log' = inbox_log \o r.logged
           /\ records' = records \cup r.inserted
           /\ record_seq' = record_seq + Cardinality(r.inserted)
           /\ IF r.raised
              THEN /\ last' = observed({}, <<>>)
                   /\ UNCHANGED <<events, pending, pending_seq>>
              ELSE IF r.status = "filed" /\ r.record_id # NoRecord
              THEN /\ events' = Append(events, confirmation)
                   /\ last' = observed({}, <<confirmation>>)
                   /\ UNCHANGED <<pending, pending_seq>>
              ELSE \E log_id \in inbox_log_by_event(inbox_log', original_event_id) :
                   LET row == [id |-> pending_seq + 1, inbox_log_id |-> log_id,
                               message_id |-> ThisEvent,
                               suggested_category |-> r.category, created_at |-> now]
                   IN  /\ events' = Append(events, clarification)
                       /\ pending' = pending \cup {row}
                       /\ pending_seq' = pending_seq + 1
                       /\ last' = observed({row.id}, <<clarification>>)
    /\ UNCHANGED <<now, classify, parsed, tasks>>

\* a reply that parse_fix_command recognizes
ReplyFix(body, reply_to, cls, fetch_ok) ==
    /\ Accepted(body)
    /\ ~handled_as_command(OfBody[body].command, reply_to)
    /\ OfBody[body].fix_category # NoCategory
    /\ LET text == OfBody[body].reply_text
           fix_category == OfBody[body].fix_category
           original_event_id == get_original_event_id(reply_to, fetch_ok)
           not_found ==
               send_error(ThisEvent, <<"Couldn't find the original message to fix. Please reply directly to your message or the bot's confirmation.">>)
       IN  IF original_event_id = NoEvent
           THEN /\ events' = events \o <<UserEvent, not_found>>
                /\ last' = Observed("reply_fix", text, 0, NoRouteCall, NoFixCall, {}, {}, <<not_found>>)
                /\ UNCHANGED <<inbox_log, records, record_seq, pending, pending_seq>>
           ELSE \E log_id \in get_inbox_log_by_event(original_event_id) :
                \E f \in {handle_fix(log_id, fix_category, cls, record_seq + 1)} :
                LET sent == IF f.success
                            THEN send_fix_confirmation(ThisEvent, f.old_category,
                                                       CATEGORY_DISPLAY(fix_category),
                                                       f.extracted_name)
                            ELSE send_error(ThisEvent, f.msg)
                IN  /\ records' = (records \ f.deleted) \cup f.inserted
                    /\ record_seq' = record_seq + Cardinality(f.inserted)
                    /\ inbox_log' =
                          IF f.update = <<>> THEN inbox_log
                          ELSE [inbox_log EXCEPT ![log_id] =
                                  [@ EXCEPT !.destination = f.update[1].destination,
                                            !.record_id = f.update[1].record_id,
                                            !.status = f.update[1].status]]
                    /\ events' = events \o <<UserEvent, sent>>
                    /\ last' = Observed("reply_fix", text, 0, NoRouteCall,
                                        FixCall(f, log_id, fix_category),
                                        {}, {}, <<sent>>)
                    /\ UNCHANGED <<pending, pending_seq>>
    /\ UNCHANGED <<now, classify, memory_tasks, parsed, tasks>>

\* a reply "skip" to a clarification request
ReplySkip(body, reply_to) ==
    /\ Accepted(body)
    /\ ~handled_as_command(OfBody[body].command, reply_to)
    /\ OfBody[body].fix_category = NoCategory
    /\ OfBody[body].skip
    /\ \E p \in get_pending_by_reply_to(reply_to) :
         LET sent == send_message(ThisEvent, <<"Skipped">>)
         IN  /\ pending' = delete_pending_clarification(p)
             /\ events' = events \o <<UserEvent, sent>>
             /\ last' = Observed("reply_skip", OfBody[body].reply_text, p.inbox_log_id,
                                 NoRouteCall, NoFixCall,
                                 {}, {p.id}, <<sent>>)
    /\ UNCHANGED <<inbox_log, records, record_seq, pending_seq, now, classify, memory_tasks, parsed, tasks>>

\* any other reply to a clarification request: routed again
ReplyClarify(body, reply_to, cls) ==
    /\ Accepted(body)
    /\ ~handled_as_command(OfBody[body].command, reply_to)
    /\ OfBody[body].fix_category = NoCategory
    /\ ~OfBody[body].skip
    /\ \E p \in get_pending_by_reply_to(reply_to) :
         \E r \in {route_message(new_text(OfBody[body].token, OfBody[body].reply_text,
                                            inbox_log[p.inbox_log_id].raw_text),
                                   ThisEvent, cls, record_seq + 1)} :
         LET text == OfBody[body].reply_text
             routed == r.text
             confirmation ==
                 send_confirmation(ThisEvent, CATEGORY_DISPLAY(r.category),
                                   IF r.confidence = NoConfidence \/ r.confidence = 0
                                   THEN 100 ELSE r.confidence,
                                   ExtractedName(r.inserted, routed))
             still == send_error(ThisEvent, <<"Still couldn't classify. Try using a prefix like decision: your text">>)
         IN  /\ memory_tasks' = memory_tasks \cup create_task(r)
             /\ inbox_log' = inbox_log \o r.logged
             /\ records' = records \cup r.inserted
             /\ record_seq' = record_seq + Cardinality(r.inserted)
             /\ IF r.raised
                THEN /\ events' = Append(events, UserEvent)
                     /\ last' = Observed("reply_clarify", text, p.inbox_log_id, RouteCall(r, cls), NoFixCall, {}, {}, <<>>)
                     /\ UNCHANGED pending
                ELSE IF r.status = "filed" /\ r.record_id # NoRecord
                THEN /\ pending' = delete_pending_clarification(p)
                     /\ events' = events \o <<UserEvent, confirmation>>
                     /\ last' = Observed("reply_clarify", text, p.inbox_log_id, RouteCall(r, cls), NoFixCall, {}, {p.id},
                                         <<confirmation>>)
                ELSE /\ pending' = delete_pending_clarification(p)
                     /\ events' = events \o <<UserEvent, still>>
                     /\ last' = Observed("reply_clarify", text, p.inbox_log_id, RouteCall(r, cls), NoFixCall, {}, {p.id},
                                         <<still>>)
    /\ UNCHANGED <<pending_seq, now, classify, parsed, tasks>>

\* a reply that is no fix command and answers no clarification request
ReplyUnhandled(body, reply_to) ==
    /\ Accepted(body)
    /\ ~handled_as_command(OfBody[body].command, reply_to)
    /\ OfBody[body].fix_category = NoCategory
    /\ get_pending_by_reply_to(reply_to) = {}
    /\ events' = Append(events, UserEvent)
    /\ last' = Observed("reply_unhandled", <<>>, 0, NoRouteCall, NoFixCall, {}, {}, <<>>)
    /\ UNCHANGED <<inbox_log, records, record_seq, pending, pending_seq, now, classify, memory_tasks, parsed, tasks>>

log_entry_or_latest(original_event_id) ==
    IF get_inbox_log_by_event(original_event_id) # {}
    THEN get_inbox_log_by_event(original_event_id)
    ELSE IF inbox_log = <<>> THEN {0} ELSE {Len(inbox_log)}

\* the row handle_fix works on: the one logged for the event, 0 if none
log_entry_of(original_event_id) ==
    IF get_inbox_log_by_event(original_event_id) = {}
    THEN {0}
    ELSE get_inbox_log_by_event(original_event_id)

\* handle_fix called with the id of any event, as its tests call it
DirectFix(original_event_id, new_category, cls) ==
    /\ record_seq < MaxRecords
    /\ \E log_id \in log_entry_of(original_event_id) :
       \E f \in {handle_fix(log_id, new_category, cls, record_seq + 1)} :
          /\ records' = (records \ f.deleted) \cup f.inserted
          /\ record_seq' = record_seq + Cardinality(f.inserted)
          /\ inbox_log' =
                IF f.update = <<>> THEN inbox_log
                ELSE [inbox_log EXCEPT ![log_id] =
                        [@ EXCEPT !.destination = f.update[1].destination,
                                  !.record_id = f.update[1].record_id,
                                  !.status = f.update[1].status]]
          /\ last' = [Observed("fix", <<>>, 0, NoRouteCall, FixCall(f, log_id, new_category),
                               {}, {}, <<>>)
                        EXCEPT !.event = original_event_id]
    /\ UNCHANGED <<pending, pending_seq, events, now, classify, memory_tasks, parsed, tasks>>

\* ------------------------------------------------------------------------
\* handle_fix step by step.  The coroutine is suspended at each of its
\* storage calls, and another call can run between two of them; a task of
\* tasks holds the local variables of one call and the call it waits at.
\* (classify_thought is awaited in the branch of the dynamic categories
\* after parse_reference gave a value, which it gives for none of their
\* prefixes: the call is never reached.)
\* ------------------------------------------------------------------------
\* the calls that are suspended
Suspended == {t \in 1..Len(tasks) : tasks[t].pc # "done"}

delete_record_noop(table, record_id) == records

\* the category tables after delete_record(table, record_id)
delete_record(table, record_id) == records \ get_record(table, record_id)

\* the table inbox_log after update_inbox_log(log_id, data)
update_inbox_log(log_id, data) ==
    [inbox_log EXCEPT ![log_id] =
        [@ EXCEPT !.destination = data.destination,
                  !.record_id = data.record_id,
                  !.status = data.status]]

\* the call begins: get_inbox_log_by_event, and what follows it up to the
\* next storage call or the return
FixLookup(original_event_id, new_category, cls) ==
    /\ Len(tasks) < MaxTasks
    /\ \E log_id \in log_entry_of(original_event_id) :
       \E f \in {handle_fix(log_id, new_category, cls, NoRecord)} :
       LET returns == log_id = 0 \/ already_filed(inbox_log[log_id], new_category)
           old_category == IF log_id = 0 THEN NoCategory ELSE inbox_log[log_id].destination
           old_record_id == IF log_id = 0 THEN NoRecord ELSE inbox_log[log_id].record_id
           deletes == old_record_id # NoRecord /\ old_category # NoCategory
       IN  tasks' = Append(tasks,
                [fn |-> "handle_fix",
                 pc |-> IF returns THEN "done"
                        ELSE IF deletes THEN "delete"
                        ELSE IF f.success THEN "insert" ELSE "done",
                 during |-> Suspended,
                 original_event_id |-> original_event_id,
                 new_category |-> new_category,
                 log_id |-> log_id,
                 old_category |-> old_category,
                 old_record_id |-> old_record_id,
                 success |-> f.success,
                 msg |-> f.msg,
                 inserted |-> f.inserted,
                 update |-> f.update,
                 new_record_id |-> NoRecord])
    /\ UNCHANGED <<inbox_log, records, record_seq, pending, pending_seq, events, now, last,
                   classify, memory_tasks, parsed>>

\* delete_record(old_category, old_record_id), then the prefixed text is
\* parsed: the call goes on to insert_record or returns (False, ...)
FixDelete(t) ==
    /\ tasks[t].fn = "handle_fix"
    /\ tasks[t].pc = "delete"
    /\ records' = delete_record(tasks[t].old_category, tasks[t].old_record_id)
    /\ tasks' = [tasks EXCEPT ![t].pc = IF tasks[t].success THEN "insert" ELSE "done"]
    /\ UNCHANGED <<inbox_log, record_seq, pending, pending_seq, events, now, last, classify,
                   memory_tasks, parsed>>

\* new_record_id = insert_record(new_category, extracted)
FixInsert(t) ==
    /\ tasks[t].fn = "handle_fix"
    /\ tasks[t].pc = "insert"
    /\ records' = records \cup {[x EXCEPT !.id = record_seq + 1] : x \in tasks[t].inserted}
    /\ record_seq' = record_seq + 1
    /\ tasks' = [tasks EXCEPT ![t].pc = "update", ![t].new_record_id = record_seq + 1]
    /\ UNCHANGED <<inbox_log, pending, pending_seq, events, now, last, classify,
                   memory_tasks, parsed>>

\* update_inbox_log(log_entry["id"], {...}), and the return of (True, ...)
FixUpdate(t) ==
    /\ tasks[t].fn = "handle_fix"
    /\ tasks[t].pc = "update"
    /\ inbox_log' = update_inbox_log(tasks[t].log_id,
                                     [tasks[t].update[1] EXCEPT
                                         !.record_id = tasks[t].new_record_id])
    /\ tasks' = [tasks EXCEPT ![t].pc = "done"]
    /\ UNCHANGED <<records, record_seq, pending, pending_seq, events, now, last, classify,
                   memory_tasks, parsed>>

\* ------------------------------------------------------------------------
\* handle_reply step by step, for a reply that is no fix command: the
\* coroutine is suspended at get_pending_by_reply_to, at route_message and
\* at delete_pending_clarification (the message to the user follows the
\* last and touches no table).
\* ------------------------------------------------------------------------
NoPending == [id |-> 0, inbox_log_id |-> 0, message_id |-> NoEvent,
              suggested_category |-> NoCategory, created_at |-> 0]

\* the call begins: pending = get_pending_by_reply_to(reply_to_id), None or
\* a row with the raw_text of its inbox_log row
ReplyLookup(body, reply_to) ==
    /\ Len(tasks) < MaxTasks
    /\ Accepted(body)
    /\ ~handled_as_command(OfBody[body].command, reply_to)
    /\ OfBody[body].fix_category = NoCategory
    /\ \E p \in IF get_pending_by_reply_to(reply_to) = {} THEN {NoPending}
                ELSE get_pending_by_reply_to(reply_to) :
       tasks' = Append(tasks,
            [fn |-> "handle_reply",
             pc |-> IF p = NoPending THEN "done"
                    ELSE IF OfBody[body].skip THEN "delete" ELSE "route",
             during |-> Suspended,
             event |-> ThisEvent,
             reply_to |-> reply_to,
             body |-> body,
             pending |-> p,
             log_id |-> p.inbox_log_id,
             routed |-> FALSE,
             raised |-> FALSE,
             inserted |-> {},
             answer |-> <<send_message(ThisEvent, <<"Skipped">>)>>])
    /\ events' = Append(events, UserEvent)
    /\ UNCHANGED <<inbox_log, records, record_seq, pending, pending_seq, now, last, classify,
                   memory_tasks, parsed>>

\* route_message(new_text, event.event_id, room.room_id)
ReplyRoute(t, cls) ==
    /\ tasks[t].fn = "handle_reply"
    /\ tasks[t].pc = "route"
    /\ \E r \in {route_message(new_text(OfBody[tasks[t].body].token,
                                          OfBody[tasks[t].body].reply_text,
                                          inbox_log[tasks[t].log_id].raw_text),
                                 tasks[t].event, cls, record_seq + 1)} :
       LET confirmation ==
               send_confirmation(tasks[t].event, CATEGORY_DISPLAY(r.category),
                                 IF r.confidence = NoConfidence \/ r.confidence = 0
                                 THEN 100 ELSE r.confidence,
                                 ExtractedName(r.inserted, r.text))
           still == send_error(tasks[t].event, <<"Still couldn't classify. Try using a prefix like decision: your text">>)
       IN  /\ memory_tasks' = memory_tasks \cup create_task(r)
           /\ inbox_log' = inbox_log \o r.logged
           /\ records' = records \cup r.inserted
           /\ record_seq' = record_seq + Cardinality(r.inserted)
           /\ tasks' = [tasks EXCEPT
                           ![t].pc = IF r.raised THEN "done" ELSE "delete",
                           ![t].routed = TRUE,
                           ![t].raised = r.raised,
                           ![t].inserted = {x.id : x \in r.inserted},
                           ![t].answer = IF r.status = "filed" /\ r.record_id # NoRecord
                                         THEN <<confirmation>> ELSE <<still>>]
    /\ UNCHANGED <<pending, pending_seq, events, now, last, classify, parsed>>

\* delete_pending_clarification(pending["id"]), then the message to the user
ReplyDelete(t) ==
    /\ tasks[t].fn = "handle_reply"
    /\ tasks[t].pc = "delete"
    /\ pending' = delete_pending_clarification(tasks[t].pending)
    /\ events' = events \o tasks[t].answer
    /\ tasks' = [tasks EXCEPT ![t].pc = "done"]
    /\ UNCHANGED <<inbox_log, records, record_seq, pending_seq, now, last, classify,
                   memory_tasks, parsed>>

\* ------------------------------------------------------------------------
\* The parsers called alone, as their unit tests call them
\* ------------------------------------------------------------------------
NotParsed == [fn |-> "none", text |-> <<>>, reference |-> NoRef, category |-> NoCategory]

\* one character more than a title holds
LongText == Rep("a", TITLE_MAX + 1)

\* The texts given to parse_reference: a head, in lower case, capitalized
\* and in upper case, and what follows it.  No text starts with whitespace:
\* on_message and handle_reply strip the text and handle_fix puts the
\* prefix in front.
ColonTokens == {S_idea, S_person, S_project, S_admin, S_decision, S_howto, S_snippet,
                S_ideas, <<"n", "o", "t", "e">>}

ReferenceHeads ==
    LET lower == {t \o <<":">> : t \in ColonTokens} \cup {S_decision, <<"m", "y">>}
    IN  lower \cup {Capitalize(h) : h \in lower} \cup {Upper(h) : h \in lower}

ReferenceTails ==
    { <<>>,
      <<" ", "x">>,
      <<" ", "p">> \o S_because \o <<"q">>,
      <<" ", "p">> \o Upper(S_because) \o <<"q">> \o S_because \o <<"r">>,
      S_because \o <<"q">>,
      <<" ", "t", " ">> \o S_dasharrow \o <<" ", "c">>,
      <<" ", "t">> \o S_colsp \o <<"c">>,
      <<" ", "y", " ", " ">>,
      <<" ">> \o LongText,
      <<" ">> \o LongText \o S_because \o <<"q">> }

ReferenceTexts == {h \o t : h \in ReferenceHeads, t \in ReferenceTails}

\* The texts given to parse_fix_command: what stands for "fix:", the
\* whitespace after it, a word and what follows the word.
FixHeads == {S_fix_c, Capitalize(S_fix_c), Upper(S_fix_c), <<" ">> \o S_fix_c,
             <<"f", "i", "x">>, <<"f", "i", "x", "m", "e", ":">>, S_idea \o <<":">>, <<>>}

FixGaps == {<<>>, <<" ">>, <<" ", " ">>}

FixWords == {S_person, S_people, S_project, S_projects, S_idea, S_ideas, S_admin,
             S_decision, S_decisions, S_howto, S_howtos, S_snippet, S_snippets,
             Upper(S_person), Capitalize(S_project),
             S_admin \o <<"s">>, <<"n", "o", "t", "e">>, <<"x", "y", "z">>, <<>>}

FixRests == {<<>>, <<" ">>, <<" ", "p", "l", "e", "a", "s", "e">>, <<"!">>, <<"_", "1">>}

FixTexts == {h \o g \o w \o r : h \in FixHeads, g \in FixGaps, w \in FixWords, r \in FixRests}

ParseReference(text) ==
    /\ parsed = NotParsed
    /\ parsed' = [fn |-> "parse_reference", text |-> text,
                  reference |-> parse_reference(text), category |-> NoCategory]
    /\ UNCHANGED <<inbox_log, records, record_seq, pending, pending_seq, events, now, last,
                   classify, memory_tasks, tasks>>

ParseFixCommand(text) ==
    /\ parsed = NotParsed
    /\ parsed' = [fn |-> "parse_fix_command", text |-> text,
                  reference |-> NoRef, category |-> parse_fix_command(text)]
    /\ UNCHANGED <<inbox_log, records, record_seq, pending, pending_seq, events, now, last,
                   classify, memory_tasks, tasks>>

\* ------------------------------------------------------------------------
\* Maintenance (scripts/maintenance.py) and the passing of time
\* ------------------------------------------------------------------------
Sweep ==
    /\ pending' = pending \ cleanup_old_pending(HORIZON_DAYS)
    /\ last' = [Observed("sweep", <<>>, 0, NoRouteCall, NoFixCall, {},
                         {p.id : p \in cleanup_old_pending(HORIZON_DAYS)}, <<>>)
                  EXCEPT !.event = NoEvent]
    /\ UNCHANGED <<inbox_log, records, record_seq, pending_seq, events, now, classify, memory_tasks, parsed, tasks>>

Tick(days) ==
    /\ now + days <= MaxTime
    /\ now' = now + days
    /\ UNCHANGED <<inbox_log, records, record_seq, pending, pending_seq, events, last, classify, memory_tasks, parsed, tasks>>

\* ------------------------------------------------------------------------
\* Memory layer (bot/router.py): _enhance_with_memory, run by the event loop
\* some time after route_message made the task, or never
\* ------------------------------------------------------------------------
\* brain.process_note returned
EnhanceCompleted(task) ==
    /\ task \in memory_tasks
    /\ task.status = "scheduled"
    /\ memory_tasks' = (memory_tasks \ {task}) \cup {[task EXCEPT !.status = "completed"]}
    /\ UNCHANGED <<inbox_log, records, record_seq, pending, pending_seq, events, now, last,
                   classify, parsed, tasks>>

\* the import, get_brain or brain.process_note raised: caught and logged
EnhanceFailed(task) ==
    /\ task \in memory_tasks
    /\ task.status = "scheduled"
    /\ memory_tasks' = (memory_tasks \ {task}) \cup {[task EXCEPT !.status = "failed"]}
    /\ UNCHANGED <<inbox_log, records, record_seq, pending, pending_seq, events, now, last,
                   classify, parsed, tasks>>

\* ------------------------------------------------------------------------
\* Classifier (bot/classifier.py): classify_thought, one step per attempt
\* ------------------------------------------------------------------------
MAX_RETRIES == 3

RETRY_DELAY == 2

\* What one attempt ends in: the parsed JSON content, or an exception:
\* httpx.TimeoutException, httpx.HTTPStatusError with a status code,
\* json.JSONDecodeError, or any other exception (a connection error, a
\* response without choices).
Parsed(value) == [kind |-> "parsed", status_code |-> 200, value |-> value]

TimeoutException == [kind |-> "TimeoutException", status_code |-> 0, value |-> EmptyDict]

HTTPStatusError(status_code) ==
    [kind |-> "HTTPStatusError", status_code |-> status_code, value |-> EmptyDict]

JSONDecodeError == [kind |-> "JSONDecodeError", status_code |-> 200, value |-> EmptyDict]

OtherException == [kind |-> "Exception", status_code |-> 0, value |-> EmptyDict]

Responses ==
    { Parsed(X_idea), Parsed(X_project), TimeoutException, JSONDecodeError, OtherException,
      HTTPStatusError(404), HTTPStatusError(499), HTTPStatusError(500), HTTPStatusError(503) }

NoError == [kind |-> "None", status_code |-> 0, value |-> EmptyDict]

\* classify: attempt is the loop index, calls the number of requests made,
\* slept the delays waited, responses what the attempts ended in
NotCalled ==
    [status |-> "idle", attempt |-> 0, calls |-> 0, slept |-> <<>>, responses |-> <<>>,
     last_error |-> NoError, result |-> NoError]

retried_any_status(resp) ==
    resp.kind \in {"TimeoutException", "JSONDecodeError", "HTTPStatusError"}

retried_but_json(resp) ==
    \/ resp.kind = "TimeoutException"
    \/ resp.kind = "HTTPStatusError" /\ resp.status_code >= 500

\* the exceptions the loop catches without raising again
retried(resp) ==
    \/ resp.kind = "TimeoutException"
    \/ resp.kind = "HTTPStatusError" /\ resp.status_code >= 500
    \/ resp.kind = "JSONDecodeError"

first_error_kept(last_error, resp) == IF last_error = NoError THEN resp ELSE last_error

\* last_error = e in the three except branches that retry
last_error_after(last_error, resp) == resp

\* a call of classify_thought begins
ClassifyStart ==
    /\ classify.status # "trying"
    /\ classify' = [NotCalled EXCEPT !.status = "trying"]
    /\ UNCHANGED <<inbox_log, records, record_seq, pending, pending_seq, events, now, last,
                   memory_tasks, parsed, tasks>>

\* one pass of the loop: the request and what follows it, up to the next
\* request, the return or the raise
ClassifyAttempt(resp) ==
    /\ classify.status = "trying"
    /\ classify.attempt < MAX_RETRIES
    /\ LET made == [classify EXCEPT !.calls = @ + 1, !.responses = Append(@, resp)]
       IN  classify' =
             IF resp.kind = "parsed"
             THEN [made EXCEPT !.status = "returned", !.result = resp]
             ELSE IF ~retried(resp)
             THEN [made EXCEPT !.status = "raised", !.result = resp]
             ELSE IF classify.attempt < MAX_RETRIES - 1
             THEN [made EXCEPT !.last_error = last_error_after(@, resp),
                               !.slept = Append(@, RETRY_DELAY * (classify.attempt + 1)),
                               !.attempt = @ + 1]
             ELSE [made EXCEPT !.last_error = last_error_after(@, resp), !.attempt = @ + 1,
                               !.status = "raised",
                               !.result = last_error_after(classify.last_error, resp)]
    /\ UNCHANGED <<inbox_log, records, record_seq, pending, pending_seq, events, now, last,
                   memory_tasks, parsed, tasks>>

\* ------------------------------------------------------------------------
\* Specifications
\* ------------------------------------------------------------------------
NoObservation ==
    [handler |-> "none", event |-> NoEvent, text |-> <<>>, clarified |-> 0,
     route |-> NoRouteCall, fix |-> NoFixCall,
     pending_created |-> {}, pending_deleted |-> {}, sent |-> <<>>]

Init ==
    /\ inbox_log = <<>>
    /\ records = {}
    /\ record_seq = 0
    /\ pending = {}
    /\ pending_seq = 0
    /\ events = <<>>
    /\ now = 0
    /\ last = NoObservation
    /\ classify = NotCalled
    /\ memory_tasks = {}
    /\ parsed = NotParsed
    /\ tasks = <<>>

\* the message handler, the maintenance sweep and the clock
Next ==
    \/ \E body \in NewBodies, cls \in HandlerOutcomes : NewMessage(body, cls)
    \/ \E body \in ReplyBodies, reply_to \in ReplyTargets, cls \in HandlerOutcomes,
          fetch_ok \in BOOLEAN : ReplyFix(body, reply_to, cls, fetch_ok)
    \/ \E body \in ReplyBodies, reply_to \in ReplyTargets : ReplySkip(body, reply_to)
    \/ \E body \in ReplyBodies, reply_to \in ReplyTargets, cls \in HandlerOutcomes :
          ReplyClarify(body, reply_to, cls)
    \/ \E body \in ReplyBodies, reply_to \in ReplyTargets : ReplyUnhandled(body, reply_to)
    \/ Sweep
    \/ \E days \in TickDays : Tick(days)

Spec == Init /\ [][Next]_vars

\* route_message alone, on every classifier outcome
NextRoute == \E body \in RouteBodies, cls \in ClassifierOutcomes : NewMessage(body, cls)

SpecRoute == Init /\ [][NextRoute]_vars

\* route_message alone, on a classification of every category
NextThreshold == \E body \in {B_note}, cls \in ThresholdOutcomes : NewMessage(body, cls)

SpecThreshold == Init /\ [][NextThreshold]_vars

\* new messages, the sweep, and a clock that steps by one day and by the
\* horizon
NextSweep ==
    \/ \E body \in {B_note}, cls \in SweepOutcomes : NewMessage(body, cls)
    \/ Sweep
    \/ \E days \in SweepTickDays : Tick(days)

SpecSweep == Init /\ [][NextSweep]_vars

\* new messages, and messages that the transport delivers more than once
NextRedeliver ==
    \/ /\ Len(inbox_log) < MaxDeliveries
       /\ \E body \in {B_note}, cls \in HandlerOutcomes : NewMessage(body, cls)
    \/ \E original_event_id \in 1..Len(events), cls \in HandlerOutcomes :
          Redeliver(original_event_id, cls)

SpecRedeliver == Init /\ [][NextRedeliver]_vars

\* new messages and the tasks of the memory layer, each of which completes,
\* fails or stays as it is
NextEnhance ==
    \/ \E body \in RouteBodies, cls \in HandlerOutcomes : NewMessage(body, cls)
    \/ \E task \in memory_tasks : EnhanceCompleted(task)
    \/ \E task \in memory_tasks : EnhanceFailed(task)

SpecEnhance == Init /\ [][NextEnhance]_vars

\* the parsers alone: one call, on every text
NextParse ==
    \/ \E text \in ReferenceTexts : ParseReference(text)
    \/ \E text \in FixTexts : ParseFixCommand(text)

SpecParse == Init /\ [][NextParse]_vars

\* messages and replies that are query commands or hold one, and others
NextCommand ==
    \/ \E body \in {B_note} \cup CommandBodies, cls \in SweepOutcomes : NewMessage(body, cls)
    \/ \E body \in CommandBodies, reply_to \in {NoEvent} \cup ReplyTargets,
          command_ok \in BOOLEAN : Command(body, reply_to, command_ok)
    \/ \E body \in CommandReplyBodies, reply_to \in ReplyTargets, cls \in SweepOutcomes :
          ReplyClarify(body, reply_to, cls)
    \/ \E body \in CommandReplyBodies, reply_to \in ReplyTargets :
          ReplyUnhandled(body, reply_to)

SpecCommand == Init /\ [][NextCommand]_vars

\* new messages, replies "skip", and a sweep and a clock that keep running:
\* the maintenance script is run again and again and time passes.  The
\* clock of the model stops at MaxTime, and notes arrive while it can still
\* pass their horizon.
NextExpire ==
    \/ /\ now + HORIZON_DAYS < MaxTime
       /\ \E body \in {B_note}, cls \in SweepOutcomes : NewMessage(body, cls)
    \/ \E reply_to \in ReplyTargets : ReplySkip(B_skip, reply_to)
    \/ Sweep
    \/ \E days \in SweepTickDays : Tick(days)

SpecExpire ==
    /\ Init
    /\ [][NextExpire]_vars
    /\ WF_vars(Sweep)
    /\ WF_vars(\E days \in SweepTickDays : Tick(days))

\* one note, and calls of handle_fix on it that run step by step, two of
\* them at most, in every interleaving of their steps
NextFixRace ==
    \/ /\ Cardinality(UserMessages) < MaxFixNotes
       /\ \E body \in NewBodies, cls \in HandlerOutcomes : NewMessage(body, cls)
    \/ \E original_event_id \in UserMessages, new_category \in RaceTargets, cls \in SweepOutcomes :
          FixLookup(original_event_id, new_category, cls)
    \/ \E t \in 1..Len(tasks) : FixDelete(t)
    \/ \E t \in 1..Len(tasks) : FixInsert(t)
    \/ \E t \in 1..Len(tasks) : FixUpdate(t)

SpecFixRace == Init /\ [][NextFixRace]_vars

\* notes that need review or are filed, and replies to any message that run
\* step by step, two of them at most, in every interleaving of their steps
NextReplyRace ==
    \/ /\ Cardinality(UserMessages) < MaxFixNotes
       /\ \E body \in {B_note}, cls \in HandlerOutcomes : NewMessage(body, cls)
    \/ \E body \in RaceBodies, reply_to \in ReplyTargets : ReplyLookup(body, reply_to)
    \/ \E t \in 1..Len(tasks), cls \in HandlerOutcomes : ReplyRoute(t, cls)
    \/ \E t \in 1..Len(tasks) : ReplyDelete(t)

SpecReplyRace == Init /\ [][NextReplyRace]_vars

\* classify_thought alone, on every sequence of responses; every request
\* ends, in a response or in its timeout of 30 seconds
NextClassify ==
    \/ ClassifyStart
    \/ \E resp \in Responses : ClassifyAttempt(resp)

SpecClassify ==
    Init /\ [][NextClassify]_vars /\ WF_vars(\E resp \in Responses : ClassifyAttempt(resp))

\* new messages and calls of handle_fix on the id of every message and on an
\* unknown id, for every target category
NextFix ==
    \/ /\ Cardinality(UserMessages) < MaxFixNotes
       /\ \E body \in NewBodies, cls \in HandlerOutcomes : NewMessage(body, cls)
    \/ \E original_event_id \in UserMessages \cup {Len(events) + 1},
          new_category \in FixTargets, cls \in FixOutcomes :
          DirectFix(original_event_id, new_category, cls)

SpecFix == Init /\ [][NextFix]_vars

\* new messages and the replies to their clarification requests, with the
\* classifier outcomes on which route_message raises
NextClarify ==
    \/ \E body \in NewBodies, cls \in HandlerOutcomes : NewMessage(body, cls)
    \/ \E body \in ClarifyBodies, reply_to \in ReplyTargets, cls \in ClarifyOutcomes :
          ReplyClarify(body, reply_to, cls)

SpecClarify == Init /\ [][NextClarify]_vars

\* ------------------------------------------------------------------------
\* Properties
\* ------------------------------------------------------------------------
\* the 7 prefix tokens of the specification and the category of each
PrefixTokens == <<S_idea, S_person, S_project, S_admin, S_decision, S_howto, S_snippet>>

PrefixCategories == <<"ideas", "people", "projects", "admin", "decisions", "howtos", "snippets">>

Categories == {PrefixCategories[i] : i \in 1..7}

HasPrefix(text, i) == StartsWith(Lower(text), PrefixTokens[i] \o <<":">>)

HasNoPrefix(text) == \A i \in 1..7 : ~HasPrefix(text, i)

\* the thresholds of the reference configuration
ReferenceThreshold(category) == IF category = "ideas" THEN 50 ELSE 60

\* the last call of route_message classified a text without prefix and the
\* classifier returned an object with a category and a numeric confidence
Classified ==
    /\ last.route.called
    /\ HasNoPrefix(last.route.text)
    /\ last.route.classified
    /\ ~last.route.outcome.raised
    /\ last.route.outcome.isdict
    /\ {"category", "confidence"} \subseteq DOMAIN last.route.outcome.json
    /\ last.route.outcome.json.confidence # NoConfidence

\* the last call of route_message wrote one inbox_log row, the newest
LoggedOne == last.route.log_id # 0 /\ last.route.log_id = Len(inbox_log)

\* C1: for a text that starts with one of the 7 prefixes route_message does
\* not call the classifier, inserts one row in the prefix's table, logs the
\* note as filed with confidence 1.0 and returns (category, id, 1.0, filed).
C1_PrefixIsFiled ==
    \A i \in 1..7 :
        (last.route.called /\ HasPrefix(last.route.text, i)) =>
            /\ ~last.route.classified
            /\ ~last.route.raised
            /\ Cardinality(last.route.inserted) = 1
            /\ \A id \in last.route.inserted : get_record(PrefixCategories[i], id) # {}
            /\ LoggedOne
            /\ inbox_log[last.route.log_id].status = "filed"
            /\ inbox_log[last.route.log_id].confidence = 100
            /\ last.route.category = PrefixCategories[i]
            /\ last.route.record_id \in last.route.inserted
            /\ last.route.confidence = 100
            /\ last.route.status = "filed"

\* C2: every inbox_log row with status filed has a destination and a
\* record_id that refers to a row in the destination's table.
C2_FiledHasLiveRecord ==
    \A i \in 1..Len(inbox_log) :
        inbox_log[i].status = "filed" =>
            /\ inbox_log[i].destination # NoCategory
            /\ inbox_log[i].record_id # NoRecord
            /\ get_record(inbox_log[i].destination, inbox_log[i].record_id) # {}

\* C3: handle_fix on an existing row with a category other than the row's
\* destination succeeds with "Fixed", deletes the old record, inserts one
\* record in the new category and updates the row to it with status fixed.
C3_FixToOtherCategorySucceeds ==
    (/\ last.fix.called
     /\ last.fix.log_id # 0
     /\ last.fix.new_category \in Categories
     /\ last.fix.new_category # last.fix.old_destination) =>
        /\ last.fix.success
        /\ last.fix.msg = <<"Fixed">>
        /\ last.fix.old_record_id # NoRecord =>
              get_record(last.fix.old_destination, last.fix.old_record_id) = {}
        /\ Cardinality(last.fix.inserted) = 1
        /\ \A id \in last.fix.inserted :
              /\ get_record(last.fix.new_category, id) # {}
              /\ inbox_log[last.fix.log_id].record_id = id
        /\ inbox_log[last.fix.log_id].destination = last.fix.new_category
        /\ inbox_log[last.fix.log_id].status = "fixed"

\* C4: a text without prefix that the classifier gives a known category with
\* a confidence strictly below the category's threshold: no record inserted,
\* one row logged with the suggested category, no record_id and status
\* needs_review, and (category, None, confidence, needs_review) returned.
C4_BelowThresholdNeedsReview ==
    (/\ Classified
     /\ last.route.outcome.json.category \in Categories
     /\ last.route.outcome.json.confidence
           < ReferenceThreshold(last.route.outcome.json.category)) =>
        /\ ~last.route.raised
        /\ last.route.inserted = {}
        /\ LoggedOne
        /\ inbox_log[last.route.log_id].destination = last.route.outcome.json.category
        /\ inbox_log[last.route.log_id].record_id = NoRecord
        /\ inbox_log[last.route.log_id].confidence = last.route.outcome.json.confidence
        /\ inbox_log[last.route.log_id].status = "needs_review"
        /\ last.route.category = last.route.outcome.json.category
        /\ last.route.record_id = NoRecord
        /\ last.route.confidence = last.route.outcome.json.confidence
        /\ last.route.status = "needs_review"

C4_Witness ==
    /\ Classified
    /\ last.route.outcome.json.category = "projects"
    /\ last.route.outcome.json.confidence = 50
    /\ last.route.status = "needs_review"

\* C5 as stated: for a category that is none of the 7, at every confidence,
\* no record is inserted and one row is logged with status needs_review and
\* no destination.
C5_UnknownCategoryHasNoDestination ==
    (Classified /\ last.route.outcome.json.category \notin Categories) =>
        /\ last.route.inserted = {}
        /\ LoggedOne
        /\ inbox_log[last.route.log_id].status = "needs_review"
        /\ inbox_log[last.route.log_id].destination = NoCategory

\* C5 amended: for a category that is none of the 7 no record is inserted
\* and one row is logged with status needs_review; the row has no
\* destination when the confidence reaches the default threshold, and the
\* category the classifier returned as destination when it is below.
C5_UnknownCategoryNeedsReview ==
    (Classified /\ last.route.outcome.json.category \notin Categories) =>
        /\ last.route.inserted = {}
        /\ LoggedOne
        /\ inbox_log[last.route.log_id].status = "needs_review"
        /\ inbox_log[last.route.log_id].record_id = NoRecord
        /\ inbox_log[last.route.log_id].destination =
              IF last.route.outcome.json.confidence >= 60
              THEN NoCategory
              ELSE last.route.outcome.json.category

C5_Witness ==
    /\ Classified
    /\ last.route.outcome.json.category = "unknown_category"
    /\ last.route.outcome.json.confidence = 90
    /\ LoggedOne
    /\ inbox_log[last.route.log_id].status = "needs_review"

\* C6: when the classifier raises, route_message does not raise, logs one
\* row without destination, record_id and confidence and with status
\* needs_review, and returns (None, None, None, needs_review); on no other
\* path does it log or return a confidence of None.
C6_ClassifierFailureNeedsReview ==
    /\ (last.route.called /\ last.route.classified /\ last.route.outcome.raised) =>
          /\ ~last.route.raised
          /\ last.route.inserted = {}
          /\ LoggedOne
          /\ inbox_log[last.route.log_id].destination = NoCategory
          /\ inbox_log[last.route.log_id].record_id = NoRecord
          /\ inbox_log[last.route.log_id].confidence = NoConfidence
          /\ inbox_log[last.route.log_id].status = "needs_review"
          /\ last.route.category = NoCategory
          /\ last.route.record_id = NoRecord
          /\ last.route.confidence = NoConfidence
          /\ last.route.status = "needs_review"
    /\ (/\ last.route.called
        /\ ~last.route.raised
        /\ ~(last.route.classified /\ last.route.outcome.raised)) =>
          /\ last.route.confidence # NoConfidence
          /\ LoggedOne
          /\ inbox_log[last.route.log_id].confidence # NoConfidence

C6_Witness ==
    /\ last.route.called
    /\ last.route.classified
    /\ last.route.outcome.raised
    /\ last.route.status = "needs_review"

\* C7: a text without prefix that the classifier gives a known category with
\* a confidence at or above the category's threshold: one record inserted in
\* the category from the extracted fields, one row logged with status filed
\* and the record's id, and (category, record_id, confidence, filed) returned.
C7_AtThresholdIsFiled ==
    (/\ Classified
     /\ last.route.outcome.json.category \in Categories
     /\ last.route.outcome.json.confidence
           >= ReferenceThreshold(last.route.outcome.json.category)) =>
        /\ ~last.route.raised
        /\ Cardinality(last.route.inserted) = 1
        /\ \A id \in last.route.inserted :
              /\ \E r \in get_record(last.route.outcome.json.category, id) :
                    \A k \in DOMAIN last.route.outcome.json.extracted :
                        k \in DOMAIN r.data /\ r.data[k] = last.route.outcome.json.extracted[k]
              /\ last.route.record_id = id
              /\ LoggedOne
              /\ inbox_log[last.route.log_id].record_id = id
        /\ inbox_log[last.route.log_id].destination = last.route.outcome.json.category
        /\ inbox_log[last.route.log_id].confidence = last.route.outcome.json.confidence
        /\ inbox_log[last.route.log_id].status = "filed"
        /\ last.route.category = last.route.outcome.json.category
        /\ last.route.confidence = last.route.outcome.json.confidence
        /\ last.route.status = "filed"

\* the confidence equals the threshold
C7_Witness ==
    /\ Classified
    /\ last.route.outcome.json.category = "ideas"
    /\ last.route.outcome.json.confidence = 50
    /\ last.route.status = "filed"

\* C8: every needs_review outcome of route_message, for a new message and for
\* a routed reply, comes with one new pending clarification that refers to
\* the logged row; a filed outcome comes with none.
C8_PendingIffNeedsReview ==
    /\ (last.route.called /\ last.route.status = "needs_review") =>
          /\ Cardinality(last.pending_created) = 1
          /\ \A p \in pending :
                p.id \in last.pending_created => p.inbox_log_id = last.route.log_id
    /\ (last.route.called /\ last.route.status = "filed") => last.pending_created = {}

\* C9: a reply to a clarification request that is a bare token or starts
\* with "<token>:" makes handle_reply route "<token>: <raw text of the
\* pending note>".
C9_TokenReplyRoutesOriginal ==
    \A i \in 1..7 :
        (/\ last.handler = "reply_clarify"
         /\ \/ Lower(last.text) = PrefixTokens[i]
            \/ HasPrefix(last.text, i)) =>
            /\ last.route.called
            /\ last.route.text =
                  PrefixTokens[i] \o <<":", " ">> \o inbox_log[last.clarified].raw_text

\* a bare token, in upper case after a quoted line
C9_Witness ==
    /\ last.handler = "reply_clarify"
    /\ last.text = <<"I", "d", "e", "a">>
    /\ last.route.called

PendingOfClarified == {p \in pending : p.inbox_log_id = last.clarified}

C12_OneLogRowPerNote ==
    (last.handler = "reply_clarify" /\ last.route.called /\ ~last.route.raised) =>
        /\ last.route.message_id = inbox_log[last.clarified].message_id
        /\ last.route.log_id = last.clarified
        /\ \A i \in 1..Len(inbox_log) :
              i # last.clarified =>
                  inbox_log[i].message_id # inbox_log[last.clarified].message_id
        /\ last.route.status = "filed" => inbox_log[last.clarified].status # "needs_review"

\* the last reply handled by handle_reply is free text: not "skip" and no
\* category token, bare or followed by a colon
FreeTextReply ==
    /\ last.handler = "reply_clarify"
    /\ Lower(last.text) # S_skip
    /\ \A i \in 1..7 :
          /\ Strip(Lower(last.text)) # PrefixTokens[i]
          /\ ~HasPrefix(Strip(last.text), i)

\* C13: a free-text reply to a clarification request is routed as the
\* reply's own text and like a new note: it goes to the classifier and is
\* filed exactly when the classifier gives a known category with a
\* confidence at or above the category's threshold.
C13_FreeTextReplyRoutedAsNewNote ==
    FreeTextReply =>
        /\ last.route.called
        /\ last.route.text = last.text
        /\ last.route.classified
        /\ last.route.status = "filed" <=>
              /\ ~last.route.outcome.raised
              /\ last.route.outcome.isdict
              /\ last.route.outcome.json.category \in Categories
              /\ last.route.outcome.json.confidence
                    >= ReferenceThreshold(last.route.outcome.json.category)
        /\ last.route.status = "filed" =>
              /\ Cardinality(last.route.inserted) = 1
              /\ inbox_log[last.route.log_id].raw_text = last.text

\* the reply differs from the text of the note and is filed
C13_Witness ==
    /\ FreeTextReply
    /\ last.text # inbox_log[last.clarified].raw_text
    /\ last.route.status = "filed"

\* the display names of the categories
DisplayNames ==
    [people |-> "person", projects |-> "project", ideas |-> "idea", admin |-> "admin",
     decisions |-> "decision", howtos |-> "howto", snippets |-> "snippet"]

\* C14: handle_fix with the category the row already has as destination
\* returns success=False and "Already filed as <display name>", deletes and
\* inserts no record and leaves the row as it is.
C14_SameCategoryIsNoOp ==
    [][(/\ last'.fix.called
        /\ last'.fix.log_id # 0
        /\ last'.fix.new_category = inbox_log[last'.fix.log_id].destination) =>
          /\ ~last'.fix.success
          /\ last'.fix.msg = <<"Already filed as ", DisplayNames[last'.fix.new_category]>>
          /\ last'.fix.old_category = NoCategory
          /\ last'.fix.extracted_name = NoText
          /\ last'.fix.deleted = {}
          /\ last'.fix.inserted = {}
          /\ records' = records
          /\ inbox_log' = inbox_log]_vars

\* the row is filed and has a record
C14_Witness ==
    /\ last.fix.called
    /\ last.fix.log_id # 0
    /\ last.fix.new_category = last.fix.old_destination
    /\ last.fix.old_record_id # NoRecord
    /\ ~last.fix.success

\* C15: handle_fix with an event id for which no row is logged returns
\* (False, "Couldn't find the original message to fix", None, None) and
\* changes nothing in storage.
C15_UnknownMessageIsNotFound ==
    [][(/\ last'.handler = "fix"
        /\ last'.fix.called
        /\ \A i \in 1..Len(inbox_log) : inbox_log[i].message_id # last'.event) =>
          /\ ~last'.fix.success
          /\ last'.fix.msg = <<"Couldn't find the original message to fix">>
          /\ last'.fix.old_category = NoCategory
          /\ last'.fix.extracted_name = NoText
          /\ records' = records
          /\ record_seq' = record_seq
          /\ inbox_log' = inbox_log
          /\ pending' = pending]_vars

\* rows and records exist, none of them for the event
C15_Witness ==
    /\ last.handler = "fix"
    /\ last.fix.called
    /\ last.fix.log_id = 0
    /\ records # {}
    /\ inbox_log # <<>>

WithoutTags(d) == [k \in DOMAIN d \ {"tags"} |-> d[k]]

\* C16: handle_fix on the same row and target category gives, whatever the
\* classifier does, what it gives when the classifier raises (so the same
\* for any two outcomes): the same success flag and message, the same
\* update of the row and the same new record but for its tags; for the
\* targets decisions, howtos and snippets the classifier is not called.
C16_FixIndependentOfClassifier ==
    [][last'.fix.called =>
          /\ \A cls \in {Raises} :
                \E g \in {handle_fix(last'.fix.log_id, last'.fix.new_category, cls,
                                     record_seq + 1)} :
                   /\ g.success = last'.fix.success
                   /\ g.msg = last'.fix.msg
                   /\ {x.id : x \in g.deleted} = last'.fix.deleted
                   /\ g.update = <<>> <=> inbox_log' = inbox_log
                   /\ g.update # <<>> =>
                         /\ inbox_log'[last'.fix.log_id].destination = g.update[1].destination
                         /\ inbox_log'[last'.fix.log_id].record_id = g.update[1].record_id
                         /\ inbox_log'[last'.fix.log_id].status = g.update[1].status
                   /\ {x.id : x \in g.inserted} = last'.fix.inserted
                   /\ \A x \in g.inserted :
                         \E y \in records' :
                            /\ y.id = x.id
                            /\ y.table = x.table
                            /\ WithoutTags(y.data) = WithoutTags(x.data)
                   /\ last'.fix.new_category \in {"decisions", "howtos", "snippets"} =>
                         ~g.classified
          /\ last'.fix.new_category \in {"decisions", "howtos", "snippets"} =>
                ~last'.fix.classified]_vars

C16_Witness ==
    /\ last.fix.called
    /\ last.fix.success
    /\ last.fix.new_category = "howtos"
    /\ last.fix.old_record_id # NoRecord

C18_NeedsReviewHasNoRecord ==
    \A i \in 1..Len(inbox_log) :
        inbox_log[i].status = "needs_review" => inbox_log[i].record_id = NoRecord

\* a needs_review row was given a new category by a fix command
C18_Witness ==
    /\ last.fix.called
    /\ last.fix.success
    /\ last.fix.old_record_id = NoRecord
    /\ inbox_log[last.fix.log_id].status = "fixed"
    /\ \E i \in 1..Len(inbox_log) : inbox_log[i].status = "needs_review"

\* the failures after which another attempt is made
Retryable(resp) ==
    \/ resp.kind = "TimeoutException"
    \/ resp.kind = "JSONDecodeError"
    \/ resp.kind = "HTTPStatusError" /\ resp.status_code \in 500..599

\* every request of the call so far failed in a retryable way
AllRetryable == \A i \in 1..Len(classify.responses) : Retryable(classify.responses[i])

\* C19: classify_thought makes at most 3 requests; after a timeout, a 5xx or
\* a malformed response on attempt 1 or 2 it waits (2 s times the attempt
\* number) and is about to try again, after 3 such failures it raises the
\* last one, it returns the first parsed result, and every call ends.
C19_AtMostThreeAttempts ==
    /\ [](/\ classify.calls <= 3
          /\ classify.calls = Len(classify.responses)
          /\ (AllRetryable /\ Len(classify.responses) \in {1, 2}) =>
                /\ classify.status = "trying"
                /\ classify.slept = [i \in 1..Len(classify.responses) |-> 2 * i]
          /\ (AllRetryable /\ Len(classify.responses) = 3) =>
                /\ classify.status = "raised"
                /\ classify.result = classify.responses[3]
                /\ classify.slept = <<2, 4>>
          /\ classify.status = "returned" =>
                /\ classify.result = classify.responses[Len(classify.responses)]
                /\ classify.result.kind = "parsed"
                /\ \A i \in 1..(Len(classify.responses) - 1) :
                      Retryable(classify.responses[i]))
    /\ (classify.status = "trying" ~> classify.status \in {"returned", "raised"})

\* a result on the third request, after a 5xx and a malformed response
C19_Witness ==
    /\ classify.status = "returned"
    /\ classify.calls = 3
    /\ classify.responses[1].kind = "HTTPStatusError"
    /\ classify.responses[2].kind = "JSONDecodeError"

\* C20: a 4xx, or an exception that is no timeout, no 5xx and no JSON decode
\* error, on any attempt is raised to the caller at once: it is the last
\* request of the call and no wait follows it.
C20_ClientErrorPropagatesAtOnce ==
    \A i \in 1..Len(classify.responses) :
        (classify.responses[i].kind # "parsed" /\ ~Retryable(classify.responses[i])) =>
            /\ i = Len(classify.responses)
            /\ classify.calls = i
            /\ classify.status = "raised"
            /\ classify.result = classify.responses[i]
            /\ Len(classify.slept) = i - 1

\* a 4xx on the second request, after a retried timeout
C20_Witness ==
    /\ classify.status = "raised"
    /\ classify.calls = 2
    /\ classify.responses[1].kind = "TimeoutException"
    /\ classify.responses[2].kind = "HTTPStatusError"
    /\ classify.responses[2].status_code = 404

\* C21: when all 3 requests of a call fail in a retryable way the call raises
\* the error of the third request, not of an earlier one; a call returns
\* only what a request's response was parsed to, and a call that raised
\* returned no value.
C21_ExhaustedRaisesLastError ==
    /\ (AllRetryable /\ Len(classify.responses) = MAX_RETRIES) =>
          /\ classify.status = "raised"
          /\ classify.result = classify.responses[MAX_RETRIES]
          /\ classify.last_error = classify.responses[MAX_RETRIES]
    /\ classify.status = "returned" =>
          /\ classify.result.kind = "parsed"
          /\ \E i \in 1..Len(classify.responses) :
                /\ classify.responses[i].kind = "parsed"
                /\ classify.result = classify.responses[i]
    /\ classify.status = "raised" => classify.result.kind \notin {"parsed", "None"}
    /\ classify.status \in {"idle", "trying"} => classify.result = NoError

\* three different retryable failures
C21_Witness ==
    /\ classify.status = "raised"
    /\ classify.responses =
          <<TimeoutException, HTTPStatusError(503), JSONDecodeError>>
    /\ classify.result = JSONDecodeError

\* the categories that have an override in the configuration
Overridden == {"people", "projects", "ideas", "admin"}

\* C22: the threshold route_message compares a classification against is the
\* override of the returned category when the configuration has one and the
\* global default otherwise (so for decisions, howtos, snippets, an unknown
\* and a null category): 0.5 for ideas and 0.6 for every other category; a
\* confidence below it is never filed, one at or above it is filed in every
\* category that has a table.
C22_ThresholdOfCategory ==
    Classified =>
        /\ last.route.threshold =
              IF last.route.outcome.json.category \in Overridden
              THEN CONFIDENCE_THRESHOLDS[last.route.outcome.json.category]
              ELSE CONFIDENCE_THRESHOLD
        /\ last.route.threshold =
              IF last.route.outcome.json.category = "ideas" THEN 50 ELSE 60
        /\ last.route.outcome.json.confidence < last.route.threshold =>
              /\ last.route.status = "needs_review"
              /\ last.route.inserted = {}
        /\ (/\ last.route.outcome.json.confidence >= last.route.threshold
            /\ last.route.outcome.json.category \in Categories) =>
              last.route.status = "filed"

\* a null category, a category without override and the one with the lower
\* override have been classified
C22_Witness ==
    /\ Classified
    /\ last.route.outcome.json.category = NoCategory
    /\ last.route.threshold = 60
    /\ \E i \in 1..Len(inbox_log) :
          inbox_log[i].destination = "decisions" /\ inbox_log[i].status = "needs_review"
    /\ \E i \in 1..Len(inbox_log) :
          inbox_log[i].destination = "ideas" /\ inbox_log[i].status = "filed"

\* C23: the sweep deletes exactly the pending clarifications created more
\* than 7 days ago and keeps every younger one (one of exactly 7 days too);
\* it inserts no category record, changes no inbox_log row, so that the note
\* of a deleted clarification stays needs_review without record_id, and
\* sends no message.
C23_SweepDeletesOnlyOldPending ==
    [][(last'.handler = "sweep" /\ now' = now) =>
          /\ pending' = {p \in pending : now - p.created_at <= 7}
          /\ last'.pending_deleted = {p.id : p \in {q \in pending : now - q.created_at > 7}}
          /\ records' = records
          /\ record_seq' = record_seq
          /\ inbox_log' = inbox_log
          /\ \A p \in pending \ pending' :
                inbox_log[p.inbox_log_id].status = "needs_review" =>
                   /\ inbox_log'[p.inbox_log_id].status = "needs_review"
                   /\ inbox_log'[p.inbox_log_id].record_id = NoRecord
          /\ events' = events
          /\ last'.sent = <<>>
          /\ ~last'.route.called]_vars

\* a sweep deleted a clarification of 8 days and kept one of exactly 7 days
\* and a younger one; the note of the deleted one is still in needs_review
C23_Witness ==
    /\ last.handler = "sweep"
    /\ Cardinality(last.pending_deleted) = 1
    /\ \E p \in pending : now - p.created_at = 7
    /\ \E p \in pending : now - p.created_at < 7
    /\ \E i \in 1..Len(inbox_log) :
          /\ inbox_log[i].status = "needs_review"
          /\ inbox_log[i].record_id = NoRecord
          /\ \A p \in pending : p.inbox_log_id # i

C25_EnrichmentNeverInfluencesRouting ==
    [][/\ events' # events =>
             /\ last'.route.called
             /\ \A t \in memory_tasks : t \in memory_tasks'
             /\ memory_tasks' \ memory_tasks =
                   IF last'.route.status = "filed"
                   THEN {[note_id |-> last'.route.record_id, category |-> last'.route.category,
                          input_note |-> last'.route.text, status |-> "scheduled"]}
                   ELSE {}
             /\ \A t \in memory_tasks' \ memory_tasks :
                   /\ last'.route.log_id = Len(inbox_log')
                   /\ inbox_log'[last'.route.log_id].record_id = t.note_id
                   /\ inbox_log'[last'.route.log_id].status = "filed"
                   /\ get_record(t.category, t.note_id)' # {}
             /\ \E r \in {route_message(last'.route.text, last'.route.message_id,
                                        last'.route.outcome, record_seq + 1)} :
                   /\ r.status = last'.route.status
                   /\ r.category = last'.route.category
                   /\ r.record_id = last'.route.record_id
                   /\ r.confidence = last'.route.confidence
                   /\ records' = records \cup r.inserted
                   /\ inbox_log' = inbox_log \o r.logged
       /\ events' = events =>
             /\ \E t \in memory_tasks :
                   /\ t.status = "scheduled"
                   /\ \E status \in {"completed", "failed"} :
                         memory_tasks' = (memory_tasks \ {t}) \cup {[t EXCEPT !.status = status]}
             /\ inbox_log' = inbox_log
             /\ records' = records
             /\ record_seq' = record_seq
             /\ pending' = pending
             /\ last' = last]_vars

\* a note is filed after one task has failed and one has completed, and its
\* own task has not run
C25_Witness ==
    /\ last.route.called
    /\ last.route.status = "filed"
    /\ \E t \in memory_tasks : t.status = "failed"
    /\ \E t \in memory_tasks : t.status = "completed"
    /\ \E t \in memory_tasks : t.note_id = last.route.record_id /\ t.status = "scheduled"

\* C26 as stated: parse_reference gives, for a text that begins with one of
\* the 7 prefixes in any letter case, a result whose category is the one of
\* the prefix, and None for a text that begins with none of them.
C26_EveryPrefixIsParsed ==
    parsed.fn = "parse_reference" =>
        /\ \A i \in 1..7 :
              HasPrefix(parsed.text, i) =>
                  /\ parsed.reference # NoRef
                  /\ parsed.reference.category = PrefixCategories[i]
        /\ HasNoPrefix(parsed.text) => parsed.reference = NoRef

\* the text of a call of parse_reference begins with "decision:"
DecisionText == parsed.fn = "parse_reference" /\ HasPrefix(parsed.text, 5)

\* what follows the prefix, trimmed
Remainder(i) == Strip(From(parsed.text, Len(PrefixTokens[i]) + 1))

\* the position of the first " because " of the remainder, in any letter
\* case, 0 when there is none
BecauseAt == Find(Lower(Remainder(5)), <<" ", "b", "e", "c", "a", "u", "s", "e", " ">>)

\* C27: for a text with the decision: prefix the remainder is split at its
\* first " because ", in any letter case: the trimmed text before it is
\* decision and, cut to 100 characters, title, the trimmed text after it is
\* rationale; without " because " decision is the whole remainder, title
\* its first 100 characters and rationale is null.
C27_DecisionSplitAtBecause ==
    DecisionText =>
        /\ parsed.reference # NoRef
        /\ parsed.reference.category = "decisions"
        /\ DOMAIN parsed.reference.extracted = {"title", "decision", "rationale"}
        /\ IF BecauseAt # 0
           THEN /\ parsed.reference.extracted.decision =
                      Strip(SubSeq(Remainder(5), 1, BecauseAt - 1))
                /\ parsed.reference.extracted.rationale =
                      Strip(SubSeq(Remainder(5), BecauseAt + 9, Len(Remainder(5))))
           ELSE /\ parsed.reference.extracted.decision = Remainder(5)
                /\ parsed.reference.extracted.rationale = NoText
        /\ Len(parsed.reference.extracted.title) <= 100
        /\ parsed.reference.extracted.title =
              SubSeq(parsed.reference.extracted.decision, 1,
                     Len(parsed.reference.extracted.title))
        /\ Len(parsed.reference.extracted.decision) <= 100 =>
              parsed.reference.extracted.title = parsed.reference.extracted.decision
        /\ Len(parsed.reference.extracted.decision) > 100 =>
              Len(parsed.reference.extracted.title) = 100

\* " BECAUSE " comes before " because ": the split is at the first
C27_Witness ==
    /\ DecisionText
    /\ parsed.reference.extracted.decision = <<"p">>
    /\ parsed.reference.extracted.rationale =
          <<"q", " ", "b", "e", "c", "a", "u", "s", "e", " ", "r">>

\* the text of a call of parse_reference is "<prefix i>: " and a raw text
RoundTripText(i) ==
    /\ parsed.fn = "parse_reference"
    /\ StartsWith(parsed.text, PrefixTokens[i] \o <<":", " ">>)

\* that raw text
RawText(i) == From(parsed.text, Len(PrefixTokens[i]) + 2)

\* the field of the parsed record that holds the text: decision for
\* decisions, content for howtos and snippets
PrimaryField(i) == IF PrefixTokens[i] = S_decision THEN "decision" ELSE "content"

TitleSeparators == <<(<<"=>">>), (<<"-", ">">>), (<<" ", "-", " ">>), (<<":", " ">>)>>

\* the trimmed raw text is free of what the branch of the prefix splits at
Unsplit(i) ==
    IF PrefixTokens[i] = S_decision
    THEN Find(Lower(Strip(RawText(i))), <<" ", "b", "e", "c", "a", "u", "s", "e", " ">>) = 0
    ELSE \A k \in 1..4 : Find(Strip(RawText(i)), TitleSeparators[k]) = 0

FixNames ==
    <<S_person, S_people, S_project, S_projects, S_idea, S_ideas, S_admin,
      S_decision, S_decisions, S_howto, S_howtos, S_snippet, S_snippets>>

FixStorage ==
    <<"people", "people", "projects", "projects", "ideas", "ideas", "admin",
      "decisions", "decisions", "howtos", "howtos", "snippets", "snippets">>

\* the text of a call of parse_fix_command, trimmed and in lower case
FixText == Lower(Strip(parsed.text))

\* what follows "fix:" and the whitespace after it
FixArgument == LStrip(From(FixText, 4))

\* the argument is the word k and nothing else
IsName(k) == StartsWith(FixText, S_fix_c) /\ FixArgument = FixNames[k]

\* the argument begins with the word k, and the word ends there
BeginsWithName(k) ==
    /\ StartsWith(FixText, S_fix_c)
    /\ StartsWith(FixArgument, FixNames[k])
    /\ Len(FixArgument) > Len(FixNames[k]) =>
          FixArgument[Len(FixNames[k]) + 1] \notin WordChars

\* C29 as stated: parse_fix_command gives the storage category for a text
\* that, trimmed and in lower case, is "fix:", optional whitespace and one
\* of the 13 names, and None for every other text.
C29_FixCommandIsFixAndName ==
    parsed.fn = "parse_fix_command" =>
        /\ \A k \in 1..13 : IsName(k) => parsed.category = FixStorage[k]
        /\ (\A k \in 1..13 : ~IsName(k)) => parsed.category = NoCategory

\* C29 amended: parse_fix_command gives the storage category for a text
\* that, trimmed and in lower case, begins with "fix:", optional whitespace
\* and one of the 13 names as a whole word (what follows the word is not
\* read), and None for every other text.
C29_FixCommandBeginsWithFixAndName ==
    parsed.fn = "parse_fix_command" =>
        /\ \A k \in 1..13 : BeginsWithName(k) => parsed.category = FixStorage[k]
        /\ (\A k \in 1..13 : ~BeginsWithName(k)) => parsed.category = NoCategory

\* "FIX:  PERSON please"
C29_Witness ==
    /\ parsed.fn = "parse_fix_command"
    /\ parsed.text = Upper(S_fix_c) \o <<" ", " ">> \o Upper(S_person)
                        \o <<" ", "p", "l", "e", "a", "s", "e">>
    /\ parsed.category = "people"

\* C30: a message whose body parse_command recognizes, reply or not, is
\* taken by no handler that routes, fixes or resolves; the command handler
\* answers it with one message and calls neither the router nor the
\* classifier, writes no inbox_log row and no category record and leaves
\* the pending clarifications as they are, the one it replies to included.
C30_CommandNeverReachesRouter ==
    [][/\ \A body \in Bodies :
             parse_command(Strip(body)) # NoCommand =>
                 /\ \A cls \in SweepOutcomes : ~NewMessage(body, cls)
                 /\ \A reply_to \in ReplyTargets :
                       /\ \A cls \in SweepOutcomes : ~ReplyClarify(body, reply_to, cls)
                       /\ ~ReplyUnhandled(body, reply_to)
                       /\ ~ReplySkip(body, reply_to)
       /\ (events' # events /\ last'.handler = "command") =>
             /\ parse_command(last'.text) # NoCommand
             /\ ~last'.route.called
             /\ ~last'.route.classified
             /\ ~last'.fix.called
             /\ classify' = classify
             /\ memory_tasks' = memory_tasks
             /\ inbox_log' = inbox_log
             /\ records' = records
             /\ record_seq' = record_seq
             /\ pending' = pending
             /\ pending_seq' = pending_seq
             /\ Len(last'.sent) = 1
             /\ Len(events') = Len(events) + 2
             /\ events'[Len(events')] = last'.sent[1]
             /\ last'.sent[1].reply_to = last'.event]_vars

\* "?Recall DB" sent as a reply to a clarification request that is pending
C30_Witness ==
    /\ last.handler = "command"
    /\ parse_command(last.text) = [command |-> "recall", arg |-> <<"d", "b">>]
    /\ \E p \in pending : p.message_id = events[last.event].reply_to

\* the messages of the bot in the room
BotMessages == {e \in 1..Len(events) : events[e].sender = "bot"}

\* C31: no message the bot sends holds the text of a raised exception: after
\* a failure of the classification, of a fix or of a command handler the
\* user reads a clarification request or a short fixed error string.
C31_NoExceptionTextSent ==
    \A e \in BotMessages :
        \A k \in 1..Len(events[e].body) : events[e].body[k] # "str(e)"

\* C32: a call of handle_fix that returns success=False has deleted no
\* category record, inserted none and left the inbox_log as it was.
C32_FailedFixChangesNothing ==
    [][(last'.fix.called /\ ~last'.fix.success) =>
          /\ last'.fix.deleted = {}
          /\ last'.fix.inserted = {}
          /\ records' = records
          /\ record_seq' = record_seq
          /\ inbox_log' = inbox_log]_vars

\* C33: whatever classify_thought gives (an exception or any JSON value),
\* route_message returns: it raises nothing, has written one inbox_log row
\* for the message and its status is filed or needs_review.
C33_RouteAlwaysReturns ==
    /\ Len(inbox_log) = Cardinality(UserMessages)
    /\ last.route.called =>
          /\ ~last.route.raised
          /\ last.route.log_id = Len(inbox_log)
          /\ inbox_log[last.route.log_id].message_id = last.route.message_id
          /\ last.route.status \in {"filed", "needs_review"}
          /\ inbox_log[last.route.log_id].status = last.route.status

\* the inbox_log rows that hold the note of row i: the row itself and the
\* rows logged when a reply with a category label routed "<token>: <note>"
RowsOfNote(i) ==
    {j \in 1..Len(inbox_log) :
        \/ j = i
        \/ \E k \in 1..Len(VALID_TOKENS) :
              inbox_log[j].raw_text = VALID_TOKENS[k] \o <<":", " ">> \o inbox_log[i].raw_text}

\* the live category records made from the note of row i
LiveRecordsOfNote(i) ==
    {r \in records : \E j \in RowsOfNote(i) :
        r.id = inbox_log[j].record_id /\ r.table = inbox_log[j].destination}

\* no other row holds the text of row i: the rows of RowsOfNote(i) are then
\* those of one note
OnlyNoteWithItsText(i) ==
    \A j \in 1..Len(inbox_log) : inbox_log[j].raw_text = inbox_log[i].raw_text => j = i

\* C36: for a note that needed review, a fix and a reply with a category
\* label to its clarification request, in any order, leave at most one
\* live category record made from the note.
C36_OneLiveRecordPerNote ==
    \A i \in 1..Len(inbox_log) :
        OnlyNoteWithItsText(i) => Cardinality(LiveRecordsOfNote(i)) <= 1

\* the answer "Already filed as <display name>" of the call last observed
AnsweredAlreadyFiled(fix) ==
    fix.called /\ Len(fix.msg) = 2 /\ fix.msg[1] = "Already filed as "

\* the row the call works on holds only a suggestion: it needs review, has
\* no record and its destination is the target of the fix
OnlySuggested(fix, log) ==
    /\ fix.called
    /\ fix.log_id # 0
    /\ log[fix.log_id].status = "needs_review"
    /\ log[fix.log_id].record_id = NoRecord
    /\ log[fix.log_id].destination = fix.new_category

\* C37 as stated: "Already filed" is answered only for a row with a live
\* record in the target category, and a fix of a row that needs review to
\* the category suggested for it inserts the record and marks the row fixed.
C37_AlreadyFiledOnlyWithLiveRecord ==
    [][/\ AnsweredAlreadyFiled(last'.fix) =>
             get_record(last'.fix.new_category, last'.fix.old_record_id) # {}
       /\ OnlySuggested(last'.fix, inbox_log) =>
             /\ last'.fix.success
             /\ last'.fix.inserted # {}
             /\ inbox_log'[last'.fix.log_id].status = "fixed"]_vars

\* C37: handle_fix answers "Already filed as <display name>" exactly when
\* the destination of the row is the target category, whether the row has
\* a record or not; a fix of a row that needs review to the category
\* suggested for it returns success=False with that answer, inserts and
\* deletes nothing and leaves the row in needs_review without a record.
C37_AlreadyFiledByDestinationAlone ==
    [][/\ last'.fix.called =>
             (AnsweredAlreadyFiled(last'.fix) <=>
                 /\ last'.fix.log_id # 0
                 /\ inbox_log[last'.fix.log_id].destination = last'.fix.new_category)
       /\ OnlySuggested(last'.fix, inbox_log) =>
             /\ ~last'.fix.success
             /\ last'.fix.msg = <<"Already filed as ", DisplayNames[last'.fix.new_category]>>
             /\ last'.fix.inserted = {}
             /\ last'.fix.deleted = {}
             /\ records' = records
             /\ record_seq' = record_seq
             /\ inbox_log' = inbox_log
             /\ OnlySuggested(last'.fix, inbox_log')]_vars

\* "hi" classified ideas at 0.3, then a fix to ideas
C37_Witness ==
    /\ OnlySuggested(last.fix, inbox_log)
    /\ last.fix.new_category = "ideas"
    /\ inbox_log[last.fix.log_id].confidence = 30
    /\ AnsweredAlreadyFiled(last.fix)
    /\ records = {}

\* the handlers of a message of the user that is no query command
MessageHandlers == {"new_message", "reply_fix", "reply_skip", "reply_clarify", "reply_unhandled"}

\* C39: a message of the user that is no query command is routed with a
\* new inbox_log row, or taken as a fix, or resolves a pending
\* clarification, and the bot answers it; no reply is dropped without a
\* row and without an answer.
C39_NoMessageIsDropped ==
    last.handler \in MessageHandlers =>
        /\ last.sent # <<>>
        /\ \/ /\ last.handler = "new_message"
              /\ last.route.called
              /\ last.route.log_id # 0
           \/ last.handler = "reply_fix"
           \/ /\ last.handler \in {"reply_skip", "reply_clarify"}
              /\ last.clarified # 0
              /\ last.pending_deleted # {}

\* the pending clarification with that id is in the table
IsPending(id) == \E p \in pending : p.id = id

\* C38: with a clock that advances and a sweep that keeps being run, every
\* pending clarification is deleted in the end, replied to or not.
C38_PendingEventuallyDeleted ==
    \A id \in 1..MaxMessages : IsPending(id) ~> ~IsPending(id)

\* the sweep deleted a pending clarification that was older than the horizon
C38_Witness ==
    /\ last.handler = "sweep"
    /\ last.pending_deleted # {}
    /\ now > HORIZON_DAYS
    /\ \A id \in last.pending_deleted : ~IsPending(id)

\* the calls t1 and t2 of handle_fix, t1 the first to begin, are the calls
\* made on an inbox_log row, have different target categories and have
\* both returned (True, ...)
TwoFixesDone(t1, t2) ==
    /\ t1 < t2
    /\ \A t \in {t1, t2} :
          tasks[t].fn = "handle_fix" /\ tasks[t].pc = "done" /\ tasks[t].success
    /\ tasks[t1].log_id = tasks[t2].log_id
    /\ tasks[t1].new_category # tasks[t2].new_category
    /\ \A t \in 1..Len(tasks) : tasks[t].log_id = tasks[t1].log_id => t \in {t1, t2}

\* the live record that the call put in its target category
RecordOf(t) == get_record(tasks[t].new_category, tasks[t].new_record_id)

\* the live records made from the note of the row: the one the row
\* referenced when the first call read it and those the two calls inserted
RecordsOfFixedNote(t1, t2) ==
    get_record(tasks[t1].old_category, tasks[t1].old_record_id)
        \cup RecordOf(t1) \cup RecordOf(t2)

\* the live records that no inbox_log row references
Unreferenced ==
    {r \in records : \A i \in 1..Len(inbox_log) :
        ~(inbox_log[i].record_id = r.id /\ inbox_log[i].destination = r.table)}

\* the row references the record of call t and is marked fixed
References(t) ==
    /\ inbox_log[tasks[t].log_id].record_id = tasks[t].new_record_id
    /\ inbox_log[tasks[t].log_id].destination = tasks[t].new_category
    /\ inbox_log[tasks[t].log_id].status = "fixed"

\* C34 as stated: after two calls of handle_fix on the same row with
\* different targets, in whatever order their steps ran, one live record
\* holds the note, the row references it and no record is unreferenced.
C34_OneRecordAfterTwoFixes ==
    \A t1, t2 \in 1..Len(tasks) :
        TwoFixesDone(t1, t2) =>
            /\ Cardinality(RecordsOfFixedNote(t1, t2)) = 1
            /\ \E t \in {t1, t2} : References(t) /\ RecordsOfFixedNote(t1, t2) = RecordOf(t)
            /\ RecordsOfFixedNote(t1, t2) \cap Unreferenced = {}

\* C34: when the second call begins after the first has returned, one live
\* record holds the note, the one of the second call, and the row
\* references it.  When the second call begins while the first is
\* suspended, both calls read the row before either updates it: the
\* records of both calls stay live, the row references the one of the call
\* whose update ran last and the other is referenced by no row.
C34_TwoRecordsWhenFixesOverlap ==
    \A t1, t2 \in 1..Len(tasks) :
        TwoFixesDone(t1, t2) =>
            /\ \A t \in {t1, t2} : Cardinality(RecordOf(t)) <= 1
            /\ t1 \notin tasks[t2].during =>
                  /\ RecordsOfFixedNote(t1, t2) = RecordOf(t2)
                  /\ Cardinality(RecordOf(t2)) = 1
                  /\ References(t2)
                  /\ RecordsOfFixedNote(t1, t2) \cap Unreferenced = {}
            /\ t1 \in tasks[t2].during =>
                  /\ RecordsOfFixedNote(t1, t2) = RecordOf(t1) \cup RecordOf(t2)
                  /\ Cardinality(RecordsOfFixedNote(t1, t2)) = 2
                  /\ \E t \in {t1, t2} :
                        /\ References(t)
                        /\ RecordsOfFixedNote(t1, t2) \cap Unreferenced = RecordOf(t1 + t2 - t)

\* the note was filed in ideas; the fix to decisions began, then the fix to
\* howtos began and ended before the first updated the row
C34_Witness ==
    /\ Len(tasks) = 2
    /\ TwoFixesDone(1, 2)
    /\ 1 \in tasks[2].during
    /\ tasks[1].old_category = "ideas"
    /\ tasks[2].old_category = "ideas"
    /\ tasks[1].new_category = "decisions"
    /\ tasks[2].new_category = "howtos"
    /\ References(1)
    /\ Unreferenced = RecordOf(2)
    /\ Cardinality(records) = 2

\* the replies handled step by step that found the pending clarification p
RepliesTo(p) ==
    {t \in 1..Len(tasks) : tasks[t].fn = "handle_reply" /\ tasks[t].pending = p}

\* the pending clarifications that some reply found
FoundPending == {tasks[t].pending : t \in 1..Len(tasks)} \ {NoPending}

\* the inbox_log rows written by the route_message call of reply t
RowsOfReply(t) == {i \in 1..Len(inbox_log) : inbox_log[i].message_id = tasks[t].event}

\* C35 as stated: in every interleaving of two replies to a clarification
\* request, route_message is called at most once for the pending
\* clarification and at most one category record is made.
C35_ResolvedAtMostOnce ==
    \A p \in FoundPending :
        /\ Cardinality({t \in RepliesTo(p) : tasks[t].routed}) <= 1
        /\ Cardinality(UNION {tasks[t].inserted : t \in RepliesTo(p)}) <= 1

\* C35: a reply that begins after another reply to the same request has
\* returned finds no pending clarification and routes nothing; two replies
\* find the same pending clarification only when the second begins while
\* the first is suspended (or after its route_message raised), and then
\* each of them that is not "skip" calls route_message once, writes its own
\* inbox_log row and can make its own record.  Once a reply that found the
\* row has returned, the row is deleted.
C35_ResolvedOncePerOverlappingReply ==
    /\ \A t1, t2 \in 1..Len(tasks) :
          (/\ t1 < t2
           /\ tasks[t1].fn = "handle_reply"
           /\ tasks[t2].fn = "handle_reply"
           /\ tasks[t1].pending # NoPending
           /\ tasks[t1].pending = tasks[t2].pending) =>
              t1 \in tasks[t2].during \/ tasks[t1].raised
    /\ \A t \in 1..Len(tasks) :
          tasks[t].fn = "handle_reply" =>
              /\ tasks[t].routed => tasks[t].pending # NoPending /\ ~OfBody[tasks[t].body].skip
              /\ Cardinality(tasks[t].inserted) <= 1
              /\ Cardinality(RowsOfReply(t)) = IF tasks[t].routed /\ ~tasks[t].raised THEN 1 ELSE 0
              /\ tasks[t].pc = "done" =>
                    /\ tasks[t].routed <=>
                          tasks[t].pending # NoPending /\ ~OfBody[tasks[t].body].skip
                    /\ (tasks[t].pending # NoPending /\ ~tasks[t].raised) =>
                          tasks[t].pending \notin pending

\* two replies with a category label to the same request, the second begun
\* before the first deleted the pending clarification: two calls of
\* route_message, two inbox_log rows and two records
C35_Witness ==
    /\ Len(tasks) = 2
    /\ tasks[1].pending # NoPending
    /\ tasks[1].pending = tasks[2].pending
    /\ 1 \in tasks[2].during
    /\ \A t \in 1..2 :
          tasks[t].pc = "done" /\ tasks[t].routed /\ Cardinality(tasks[t].inserted) = 1
    /\ tasks[1].inserted # tasks[2].inserted
    /\ Cardinality(records) = 2
    /\ pending = {}
====
